---- MODULE Spec2Model ----
(***************************************************************************)
(* Receipt extraction-and-taxation pipeline of dutch-freelance-automation. *)
(*                                                                         *)
(* Part I   the receipt stores and ReceiptProcessor.process_receipt        *)
(*          (services/processing_pipeline.py, utils/database_utils.py,     *)
(*          utils/local_storage.py, modules/upload_receipts.py).           *)
(* Part II  the exchange-rate service and its cache                        *)
(*          (services/exchange_rate_service.py).                           *)
(* Part III the tax computations and the reports as functions of their     *)
(*          arguments (utils/calculations.py, services/llm_service.py,     *)
(*          services/export_service.py, utils/database_utils_local.py).    *)
(* Part IV  the user's tax rules and the settings page                     *)
(*          (utils/database_utils.py, modules/settings.py).                *)
(* Part V   two runs in get_exchange_rate at the same time                 *)
(*          (services/exchange_rate_service.py).                           *)
(* Part VI  the loop of process_uploads over the files of one upload       *)
(*          (modules/upload_receipts.py).                                  *)
(* Part VII receipts saved to and deleted from the local store             *)
(*          (utils/local_storage.py).                                      *)
(*                                                                         *)
(* Amounts are whole cents unless said otherwise, percentages whole        *)
(* percents, dates day numbers.                                            *)
(***************************************************************************)
EXTENDS Integers, Sequences, FiniteSets, TLC

(***************************************************************************)
(* Bounds of the model.                                                    *)
(***************************************************************************)
\* rows of the SQL table receipts
MaxReceipts == 1
\* receipts the upload flow creates in the JSON store
MaxUploads == 1
\* entries the exchange-rate cache can hold
MaxCacheEntries == 2
\* the small amounts of the tax computations are 0..MaxCents cents
MaxCents == 2
\* records in a list given to a report
MaxReportRecords == 3

(***************************************************************************)
(* Part I: state                                                           *)
(***************************************************************************)
VARIABLES
    db_receipts,     \* SQL table receipts: id -> [processing_status, processing_error]
    db_extracted,    \* SQL table extracted_data: receipt_id -> record
    local_metadata,  \* receipts_metadata.json: list of receipt records
    pc,              \* position of the running process_receipt call
    cur,             \* the running call: receipt id, caller, pipeline, locals
    result,          \* the result dictionary of the running call
    queue,           \* receipts the running batch still has to process
    run_writes,      \* terminal statuses written to the receipt by the running call
    llm_trace,       \* outcomes of the external calls of the running call
    audit_log        \* SQL table audit_logs: the actions of its rows

pipeVars == <<db_receipts, db_extracted, local_metadata, pc, cur, result, queue,
              run_writes, llm_trace, audit_log>>

\* Python's None
NoneVal == "None"

Statuses == {"pending", "processing", "completed", "failed"}
TerminalStatuses == {"completed", "failed"}

\* Config.EXPENSE_CATEGORIES
EXPENSE_CATEGORIES ==
    { "Beroepskosten", "Kantoorkosten", "Reis- en verblijfkosten",
      "Representatiekosten - Type 1 (Supermarket)",
      "Representatiekosten - Type 2 (Horeca)",
      "Vervoerskosten", "Zakelijke opleidingskosten" }

(***************************************************************************)
(* utils/database_utils.py: the SQL store.  A database operation either    *)
(* runs ("ok") or raises inside its try block ("error"), in which case the *)
(* handler rolls back and the function returns False.                      *)
(***************************************************************************)
DbOutcomes == {"ok", "error"}

\* save_receipt_to_db: a new row with the next primary key, status 'pending'
db_save_receipt_to_db(recs) ==
    LET ids == DOMAIN recs
        newId == IF ids = {} THEN 1
                 ELSE (CHOOSE m \in ids : \A i \in ids : i <= m) + 1
    IN  [i \in ids \cup {newId} |->
            IF i = newId
            THEN [processing_status |-> "pending", processing_error |-> NoneVal]
            ELSE recs[i]]

\* update_receipt_status without its except block: the exception of the
\* database operation leaves the function
update_receipt_status_unguarded(recs, receipt_id, status, error_msg, outcome) ==
    IF outcome = "ok" /\ receipt_id \in DOMAIN recs
    THEN [receipts |-> [recs EXCEPT ![receipt_id] =
                           [processing_status |-> status,
                            processing_error  |-> error_msg]],
          ret |-> TRUE, raised |-> FALSE]
    ELSE [receipts |-> recs, ret |-> FALSE, raised |-> outcome = "error"]

\* update_receipt_status: [receipts after the call, return value, whether an
\* exception left the function]; its except block returns False
update_receipt_status(recs, receipt_id, status, error_msg, outcome) ==
    IF outcome = "ok" /\ receipt_id \in DOMAIN recs
    THEN [receipts |-> [recs EXCEPT ![receipt_id] =
                           [processing_status |-> status,
                            processing_error  |-> error_msg]],
          ret |-> TRUE, raised |-> FALSE]
    ELSE [receipts |-> recs, ret |-> FALSE, raised |-> FALSE]

\* save_extracted_data: creates or overwrites the receipt's extracted_data row
\* and, when the receipt row exists, sets its status to 'completed', in one commit.
save_extracted_data(recs, ext, receipt_id, data, outcome) ==
    IF outcome = "ok"
    THEN [extracted |-> [i \in DOMAIN ext \cup {receipt_id} |->
                            IF i = receipt_id THEN data ELSE ext[i]],
          receipts  |-> IF receipt_id \in DOMAIN recs
                        THEN [recs EXCEPT ![receipt_id].processing_status = "completed"]
                        ELSE recs,
          wrote_status |-> receipt_id \in DOMAIN recs,
          ret |-> TRUE]
    ELSE [extracted |-> ext, receipts |-> recs, wrote_status |-> FALSE, ret |-> FALSE]

\* search_receipts(status='failed'): ids of the receipts with that status
search_receipts(recs, status) ==
    {i \in DOMAIN recs : recs[i].processing_status = status}

\* log_audit_event: adds the row; any exception is logged and swallowed
log_audit_event(log, action, outcome) ==
    IF outcome = "ok" THEN log \cup {action} ELSE log

(***************************************************************************)
(* utils/local_storage.py: the JSON store (a list of receipt records).     *)
(* extracted_data is {} for the empty dictionary and {d} for a dictionary d.*)
(***************************************************************************)
LocalIds(metadata) == {metadata[k].id : k \in 1..Len(metadata)}

get_next_receipt_id(metadata) ==
    IF metadata = <<>> THEN 1
    ELSE (CHOOSE m \in LocalIds(metadata) : \A i \in LocalIds(metadata) : i <= m) + 1

\* save_receipt: appends a 'pending' record with the next id
save_receipt(metadata) ==
    Append(metadata, [id |-> get_next_receipt_id(metadata),
                      processing_status |-> "pending",
                      extracted_data |-> {},
                      error_message |-> NoneVal])

\* the first record with the id is the one the loops update (break)
FirstIndexOf(metadata, receipt_id) ==
    CHOOSE k \in 1..Len(metadata) :
        /\ metadata[k].id = receipt_id
        /\ \A j \in 1..(k - 1) : metadata[j].id # receipt_id

\* update_receipt_data: stores the dictionary and sets status 'completed'
update_receipt_data(metadata, receipt_id, extracted_data) ==
    IF receipt_id \in LocalIds(metadata)
    THEN [metadata EXCEPT ![FirstIndexOf(metadata, receipt_id)] =
             [@ EXCEPT !.extracted_data = {extracted_data},
                       !.processing_status = "completed"]]
    ELSE metadata

\* update_receipt_status of local_storage: error_message only when one is given
local_update_receipt_status(metadata, receipt_id, status, error_message) ==
    IF receipt_id \in LocalIds(metadata)
    THEN [metadata EXCEPT ![FirstIndexOf(metadata, receipt_id)] =
             [@ EXCEPT !.processing_status = status,
                       !.error_message = IF error_message # NoneVal
                                         THEN error_message ELSE @]]
    ELSE metadata

LocalStatus(metadata, receipt_id) ==
    metadata[FirstIndexOf(metadata, receipt_id)].processing_status

(***************************************************************************)
(* services/llm_service.py: the 3-step Gemini pipeline as a function of    *)
(* the replies of its external calls.                                      *)
(***************************************************************************)
\* replies of the vision call of step 1 (images only)
VisionReplies == {"text", "raise"}

\* reply kinds of the structured-extraction call of step 2:
\*   raise       generate_content (or response.text) raises
\*   no_json     the text holds no JSON document: json.JSONDecodeError
\*   non_object  the text is JSON but not an object (a list, a number)
\*   object      the text holds a JSON object
StructuredKinds == {"raise", "no_json", "non_object", "object"}

\* the JSON objects step 2 can return: total, VAT per rate key, confidence (in
\* %).  The reply is whatever the model writes: the first object follows the
\* prompt; the second has no confidence, lacks the rates 6 and 9 and holds
\* the amount sold at the 0% rate under "0" (the prompt names that rate).
StructuredObjects ==
    { [total_amount |-> 2100, vat_breakdown |-> ("6" :> 0 @@ "9" :> 173 @@ "21" :> 0),
       confidence |-> 70],
      [total_amount |-> 1310, vat_breakdown |-> ("0" :> 100 @@ "21" :> 210)] }

\* the record _parse_json_response returns on json.JSONDecodeError (confidence 0.3)
ParseErrorRecord ==
    [total_amount |-> 0, vat_breakdown |-> ("6" :> 0 @@ "9" :> 0 @@ "21" :> 0),
     confidence |-> 30]

\* object is read only when kind = "object"
StructuredReplies ==
    [kind : StructuredKinds \ {"object"}, object : {ParseErrorRecord}]
        \cup [kind : {"object"}, object : StructuredObjects]

\* A text of the classification call is a sequence of tokens: a label, a
\* word or punctuation mark, or one whitespace character.
Whitespace == {" ", "\n"}

\* the texts step 3 can return: a label of the list, the label followed by a
\* newline, a label that is not in the list, a label with other text around
\* it, the empty text and a blank text
CategoryTexts ==
    { <<"Representatiekosten - Type 1 (Supermarket)">>,
      <<"Representatiekosten - Type 1 (Supermarket)", "\n">>,
      <<"Boodschappen">>,
      <<"Category:", " ", "Vervoerskosten", ".">>,
      << >>,
      <<" ">> }

\* replies of the classification call of step 3: a text, or an exception of
\* generate_content or of response.text
CategoryReplies ==
    {[raises |-> TRUE, text |-> << >>]} \cup [raises : {FALSE}, text : CategoryTexts]

\* _parse_json_response on a reply that did not raise: the embedded object, or
\* the parse-error record
parse_json_response(reply) ==
    IF reply.kind = "object" THEN reply.object ELSE ParseErrorRecord

\* str.strip()
RECURSIVE lstrip(_)
lstrip(text) ==
    IF text # << >> /\ Head(text) \in Whitespace THEN lstrip(Tail(text)) ELSE text

RECURSIVE rstrip(_)
rstrip(text) ==
    IF text # << >> /\ text[Len(text)] \in Whitespace
    THEN rstrip(SubSeq(text, 1, Len(text) - 1)) ELSE text

strip(text) == rstrip(lstrip(text))

\* category in categories: the text is one label of the list and nothing else
IsCategory(category) == Len(category) = 1 /\ category[1] \in EXPENSE_CATEGORIES

\* _extract_category that returns a one-token text without validating it
extract_category_unvalidated(text) ==
    LET category == strip(text)
    IN  IF Len(category) # 1 THEN "Kantoorkosten" ELSE category[1]

\* _extract_category on a reply that did not raise
extract_category(text) ==
    LET category == strip(text)
    IN  IF ~IsCategory(category) THEN "Kantoorkosten" ELSE category[1]

\* default_tax_rules of _apply_tax_rules
default_tax_rules(category) ==
    IF category \in {"Representatiekosten - Type 1 (Supermarket)",
                     "Representatiekosten - Type 2 (Horeca)"}
    THEN [btw_aftrekbaar |-> 0, ib_aftrekbaar |-> 80]
    ELSE [btw_aftrekbaar |-> 100, ib_aftrekbaar |-> 100]

\* _apply_tax_rules: the stored rule of the category, else the default
apply_tax_rules(category, tax_rules_db) ==
    IF category \in DOMAIN tax_rules_db
    THEN [vat_deductible_percentage |-> tax_rules_db[category].vat_deductible,
          ib_deductible_percentage  |-> tax_rules_db[category].ib_deductible]
    ELSE [vat_deductible_percentage |-> default_tax_rules(category).btw_aftrekbaar,
          ib_deductible_percentage  |-> default_tax_rules(category).ib_aftrekbaar]

RECURSIVE SumValues(_)
SumValues(f) ==
    IF DOMAIN f = {} THEN 0
    ELSE LET k == CHOOSE x \in DOMAIN f : TRUE
         IN  f[k] + SumValues([x \in DOMAIN f \ {k} |-> f[x]])

\* round(x, 2) of a float whose decimal value is n hundredths of a cent, in
\* cents.  A value that is no decimal tie rounds to the nearest cent.  At a
\* decimal tie (n ends in 50) the float is the nearest binary number, which
\* lies above the tie, below it or on it, and round() goes to the upper or the
\* lower cent accordingly: up says which (0.01 * 0.5 gives 0.01, 0.06 * 0.25
\* gives 0.01).
Round2(n, up) == (n + (IF up THEN 50 ELSE 49)) \div 100

\* the sides of the floats of the three products of _calculate_tax_amounts
FloatTies == [vat_deductible : BOOLEAN, remainder : BOOLEAN, profit : BOOLEAN]

\* _calculate_tax_amounts, in cents
calculate_tax_amounts(total_amount, vat_breakdown, btw_percentage, ib_percentage, ties) ==
    LET total_vat == SumValues(vat_breakdown)
        amount_excl_vat == total_amount - total_vat
    IN  [amount_excl_vat       |-> amount_excl_vat,
         vat_amount            |-> total_vat,
         vat_deductible_amount |-> Round2(total_vat * btw_percentage,
                                          ties.vat_deductible),
         remainder_after_vat   |-> Round2(total_amount * 100 - total_vat * btw_percentage,
                                          ties.remainder),
         profit_deduction      |-> Round2(amount_excl_vat * ib_percentage, ties.profit)]

\* the user's stored tax rules (category_tax_rules); none are stored here
NoTaxRules == [c \in {} |-> [vat_deductible |-> 100, ib_deductible |-> 100]]

\* process_receipt_file: configured is "the Gemini model exists", file_kind is
\* "pdf" (text read from the file, never raises) or "image" (vision call).
\* Any exception of steps 1-4 is caught by the one try block and returned as
\* success = False.
process_receipt_file(configured, file_kind, vision, structured, label, ties) ==
    IF ~configured
    THEN [success |-> FALSE, error |-> "Gemini API not configured", data |-> {},
          step1 |-> "skipped", step2 |-> "skipped", step3 |-> "skipped"]
    ELSE IF file_kind = "image" /\ vision = "raise"
    THEN [success |-> FALSE, error |-> "vision call failed", data |-> {},
          step1 |-> "raise", step2 |-> "skipped", step3 |-> "skipped"]
    ELSE IF structured.kind = "raise"
    THEN [success |-> FALSE, error |-> "structured call failed", data |-> {},
          step1 |-> "ok", step2 |-> "raise", step3 |-> "skipped"]
    ELSE IF structured.kind = "non_object"
    THEN \* structured_data.get(...) on a list: AttributeError in step 3
         [success |-> FALSE, error |-> "object has no attribute get", data |-> {},
          step1 |-> "ok", step2 |-> "non_object", step3 |-> "skipped"]
    ELSE IF label.raises
    THEN [success |-> FALSE, error |-> "classification call failed", data |-> {},
          step1 |-> "ok", step2 |-> structured.kind, step3 |-> "raise"]
    ELSE LET sd   == parse_json_response(structured)
             cat  == extract_category(label.text)
             pct  == apply_tax_rules(cat, NoTaxRules)
             calc == calculate_tax_amounts(sd.total_amount, sd.vat_breakdown,
                                           pct.vat_deductible_percentage,
                                           pct.ib_deductible_percentage, ties)
         IN  [success |-> TRUE, error |-> NoneVal,
              \* structured_data after its three updates
              data |-> {[category |-> cat,
                         vat_deductible_percentage |-> pct.vat_deductible_percentage,
                         ib_deductible_percentage |-> pct.ib_deductible_percentage,
                         amount_excl_vat |-> calc.amount_excl_vat,
                         vat_amount |-> calc.vat_amount,
                         vat_deductible_amount |-> calc.vat_deductible_amount,
                         remainder_after_vat |-> calc.remainder_after_vat,
                         profit_deduction |-> calc.profit_deduction] @@ sd},
              step1 |-> "ok", step2 |-> structured.kind,
              step3 |-> IF IsCategory(strip(label.text)) THEN "ok" ELSE "invalid"]

\* vat_breakdown.get(key, 0)
GetOr0(f, key) == IF key \in DOMAIN f THEN f[key] ELSE 0

\* d.get(key, default)
GetOr(d, key, default) == IF key \in DOMAIN d THEN d[key] ELSE default

\* _prepare_database_data with an unreported confidence read as 0 for the flag
prepare_database_data_flag_unreported(extracted_data) ==
    [expense_category |-> extracted_data.category,
     amount_excl_vat |-> extracted_data.amount_excl_vat,
     vat_6_amount |-> GetOr0(extracted_data.vat_breakdown, "6"),
     vat_9_amount |-> GetOr0(extracted_data.vat_breakdown, "9"),
     vat_21_amount |-> GetOr0(extracted_data.vat_breakdown, "21"),
     total_incl_vat |-> extracted_data.total_amount,
     vat_deductible_percentage |-> extracted_data.vat_deductible_percentage,
     ib_deductible_percentage |-> extracted_data.ib_deductible_percentage,
     vat_refund_amount |-> extracted_data.vat_deductible_amount,
     remainder_after_vat |-> extracted_data.remainder_after_vat,
     profit_deduction |-> extracted_data.profit_deduction,
     confidence_score |-> GetOr(extracted_data, "confidence", 80),
     manual_review_required |-> GetOr(extracted_data, "confidence", 0) < 70]

\* ReceiptProcessor._prepare_database_data: the extracted_data row
prepare_database_data(extracted_data) ==
    [expense_category |-> extracted_data.category,
     amount_excl_vat |-> extracted_data.amount_excl_vat,
     vat_6_amount |-> GetOr0(extracted_data.vat_breakdown, "6"),
     vat_9_amount |-> GetOr0(extracted_data.vat_breakdown, "9"),
     vat_21_amount |-> GetOr0(extracted_data.vat_breakdown, "21"),
     total_incl_vat |-> extracted_data.total_amount,
     vat_deductible_percentage |-> extracted_data.vat_deductible_percentage,
     ib_deductible_percentage |-> extracted_data.ib_deductible_percentage,
     vat_refund_amount |-> extracted_data.vat_deductible_amount,
     remainder_after_vat |-> extracted_data.remainder_after_vat,
     profit_deduction |-> extracted_data.profit_deduction,
     confidence_score |-> GetOr(extracted_data, "confidence", 80),
     manual_review_required |-> GetOr(extracted_data, "confidence", 100) < 70]

(***************************************************************************)
(* ReceiptProcessor.process_receipt, one action per step between external  *)
(* calls, and its callers.                                                 *)
(***************************************************************************)
IdleCall == [receipt_id |-> 0, caller |-> "none", pipeline |-> "none",
             error |-> NoneVal, data |-> {}]

NoResult == [success |-> FALSE, receipt_id |-> 0, error |-> NoneVal, data |-> {}]

NoTrace == [called |-> FALSE, success |-> FALSE,
            step1 |-> "skipped", step2 |-> "skipped", step3 |-> "skipped"]

FileKinds == {"pdf", "image"}

\* the ids of a set as a list, highest first (order_by upload_date desc)
RECURSIVE SeqDesc(_)
SeqDesc(S) ==
    IF S = {} THEN <<>>
    ELSE LET m == CHOOSE x \in S : \A y \in S : y <= x
         IN  <<m>> \o SeqDesc(S \ {m})

\* the arguments file_path and user_id of a call are read once, by the step
\* that uses them: they are chosen there
NewCall(receipt_id, caller, pipeline) ==
    [receipt_id |-> receipt_id, caller |-> caller, pipeline |-> pipeline,
     error |-> NoneVal, data |-> {}]

PipeInit ==
    /\ db_receipts = [i \in {} |-> [processing_status |-> "pending",
                                    processing_error |-> NoneVal]]
    /\ db_extracted = [i \in {} |-> NoneVal]
    /\ local_metadata = <<>>
    /\ pc = "idle"
    /\ cur = IdleCall
    /\ result = NoResult
    /\ queue = <<>>
    /\ run_writes = <<>>
    /\ llm_trace = NoTrace
    /\ audit_log = {}

\* database_utils.save_receipt_to_db: a receipt row in the SQL store
SaveReceiptToDb ==
    /\ pc = "idle"
    /\ Cardinality(DOMAIN db_receipts) < MaxReceipts
    /\ db_receipts' = db_save_receipt_to_db(db_receipts)
    /\ UNCHANGED <<db_extracted, local_metadata, pc, cur, result, queue,
                   run_writes, llm_trace, audit_log>>

\* process_uploads, one file: the receipt is created in the JSON store
\* (database_utils_local.save_receipt_to_db) and handed to process_receipt
UploadFile ==
    /\ pc = "idle"
    /\ Len(local_metadata) < MaxUploads
    /\ cur' = NewCall(get_next_receipt_id(local_metadata), "upload", "new")
    /\ local_metadata' = save_receipt(local_metadata)
    /\ pc' = "start"
    /\ UNCHANGED <<db_receipts, db_extracted, result, queue, run_writes, llm_trace, audit_log>>

\* process_receipt called for a receipt of the SQL store, whatever its status
\* (the receipt_files of batch_process_receipts are the caller's choice)
DirectProcess ==
    /\ pc = "idle"
    /\ \E rid \in DOMAIN db_receipts : cur' = NewCall(rid, "direct", "new")
    /\ pc' = "start"
    /\ UNCHANGED <<db_receipts, db_extracted, local_metadata, result, queue,
                   run_writes, llm_trace, audit_log>>

\* reprocess_failed_receipts: every 'failed' receipt of the SQL store goes
\* through process_receipt of processing_pipeline_old, file_path = None
ReprocessFailed ==
    /\ pc = "idle"
    /\ LET failed_receipts == SeqDesc(search_receipts(db_receipts, "failed"))
       IN  /\ failed_receipts # <<>>
           /\ cur' = NewCall(Head(failed_receipts), "reprocess", "old")
           /\ queue' = Tail(failed_receipts)
    /\ pc' = "start"
    /\ UNCHANGED <<db_receipts, db_extracted, local_metadata, result,
                   run_writes, llm_trace, audit_log>>

\* process_receipt, step 1: result is initialised, status 'processing' is
\* written; an exception of a call inside the try block goes to the handler
ProcessStart ==
    /\ pc = "start"
    /\ \E o \in DbOutcomes :
          LET r == update_receipt_status(db_receipts, cur.receipt_id,
                                         "processing", NoneVal, o)
          IN  /\ db_receipts' = r.receipts
              /\ IF r.raised
                 THEN pc' = "except" /\ cur' = [cur EXCEPT !.error = "status write raised"]
                 ELSE pc' = "llm" /\ cur' = cur
    /\ result' = [NoResult EXCEPT !.receipt_id = cur.receipt_id]
    /\ run_writes' = <<>>
    /\ llm_trace' = NoTrace
    /\ UNCHANGED <<db_extracted, local_metadata, queue, audit_log>>

\* process_receipt, step 2: llm_service.process_receipt_file
LLMStep ==
    /\ pc = "llm"
    /\ cur.pipeline = "new"
    /\ \E llm_result \in
              { process_receipt_file(configured, kind, v, s, c, ties) :
                    configured \in BOOLEAN, kind \in FileKinds, v \in VisionReplies,
                    s \in StructuredReplies, c \in CategoryReplies,
                    ties \in FloatTies } :
              /\ llm_trace' = [called |-> TRUE, success |-> llm_result.success,
                               step1 |-> llm_result.step1, step2 |-> llm_result.step2,
                               step3 |-> llm_result.step3]
              /\ IF llm_result.success
                 THEN /\ cur' = [cur EXCEPT !.data = llm_result.data]
                      /\ pc' = "save"
                 ELSE /\ cur' = [cur EXCEPT !.error = "Gemini processing failed"]
                      /\ pc' = "except"
    /\ UNCHANGED <<db_receipts, db_extracted, local_metadata, result, queue,
                   run_writes, audit_log>>

\* processing_pipeline_old.process_receipt, step 2 on file_path = None:
\* OCRService.process_receipt catches the AttributeError and reports failure
OldOcrStep ==
    /\ pc = "llm"
    /\ cur.pipeline = "old"
    /\ cur' = [cur EXCEPT !.error = "OCR failed"]
    /\ pc' = "except"
    /\ UNCHANGED <<db_receipts, db_extracted, local_metadata, result, queue,
                   run_writes, llm_trace, audit_log>>

\* process_receipt, steps 3-4: _prepare_database_data and save_extracted_data
SaveStep ==
    /\ pc = "save"
    /\ \E o \in DbOutcomes :
          LET d == CHOOSE x \in cur.data : TRUE
              r == save_extracted_data(db_receipts, db_extracted, cur.receipt_id,
                                       prepare_database_data(d), o)
          IN  /\ db_receipts' = r.receipts
              /\ db_extracted' = r.extracted
              /\ run_writes' = IF r.wrote_status
                               THEN Append(run_writes, "completed") ELSE run_writes
              /\ IF r.ret
                 THEN pc' = "complete" /\ cur' = cur
                 ELSE /\ pc' = "except"
                      /\ cur' = [cur EXCEPT !.error = "Failed to save extracted data"]
    /\ UNCHANGED <<local_metadata, result, queue, llm_trace, audit_log>>

\* process_receipt, steps 5-6: status 'completed', audit event, result filled in
CompleteStep ==
    /\ pc = "complete"
    /\ \E o \in DbOutcomes :
          LET r == update_receipt_status(db_receipts, cur.receipt_id,
                                         "completed", NoneVal, o)
          IN  /\ db_receipts' = r.receipts
              /\ run_writes' = IF r.ret THEN Append(run_writes, "completed")
                               ELSE run_writes
              /\ IF r.raised
                 THEN /\ pc' = "except"
                      /\ cur' = [cur EXCEPT !.error = "status write raised"]
                      /\ UNCHANGED <<audit_log, result>>
                 ELSE /\ \E user_id \in BOOLEAN, a \in DbOutcomes :
                            audit_log' = IF user_id /\ cur.caller # "upload"
                                         THEN log_audit_event(audit_log, "process", a)
                                         ELSE audit_log
                      /\ result' = [result EXCEPT !.success = TRUE, !.data = cur.data]
                      /\ pc' = "returned"
                      /\ cur' = cur
    /\ UNCHANGED <<db_extracted, local_metadata, queue, llm_trace>>

\* process_receipt, the except block: error recorded, status 'failed' written;
\* an exception of a call made here leaves process_receipt
ExceptStep ==
    /\ pc = "except"
    /\ \E o \in DbOutcomes :
          LET r == update_receipt_status(db_receipts, cur.receipt_id,
                                         "failed", cur.error, o)
          IN  /\ db_receipts' = r.receipts
              /\ run_writes' = IF r.ret THEN Append(run_writes, "failed")
                               ELSE run_writes
              /\ IF r.raised
                 THEN pc' = "raised" /\ audit_log' = audit_log
                 ELSE /\ \E user_id \in BOOLEAN, a \in DbOutcomes :
                            audit_log' = IF user_id /\ cur.caller # "upload"
                                         THEN log_audit_event(audit_log, "process_failed", a)
                                         ELSE audit_log
                      /\ pc' = "returned"
    /\ result' = [result EXCEPT !.error = cur.error]
    /\ UNCHANGED <<db_extracted, local_metadata, cur, queue, llm_trace>>

\* process_uploads after process_receipt returned: on success the data goes
\* to the JSON store (an exception of that write is logged and swallowed)
UploadReturn ==
    /\ pc = "returned"
    /\ cur.caller = "upload"
    /\ \E io \in DbOutcomes :
          local_metadata' =
              IF result.success /\ io = "ok"
              THEN update_receipt_data(local_metadata, cur.receipt_id,
                                       CHOOSE x \in result.data : TRUE)
              ELSE local_metadata
    /\ pc' = "idle"
    /\ cur' = IdleCall
    /\ result' = NoResult
    /\ run_writes' = <<>>
    /\ llm_trace' = NoTrace
    /\ UNCHANGED <<db_receipts, db_extracted, queue, audit_log>>

\* the caller of a direct call takes the result
DirectReturn ==
    /\ pc = "returned"
    /\ cur.caller = "direct"
    /\ pc' = "idle"
    /\ cur' = IdleCall
    /\ result' = NoResult
    /\ run_writes' = <<>>
    /\ llm_trace' = NoTrace
    /\ UNCHANGED <<db_receipts, db_extracted, local_metadata, queue, audit_log>>

\* batch_process_receipts: the next receipt of the list, or the end of the batch
BatchReturn ==
    /\ pc = "returned"
    /\ cur.caller = "reprocess"
    /\ IF queue = <<>>
       THEN pc' = "idle" /\ cur' = IdleCall /\ queue' = queue
       ELSE /\ pc' = "start"
            /\ cur' = NewCall(Head(queue), "reprocess", "old")
            /\ queue' = Tail(queue)
    /\ result' = NoResult
    /\ run_writes' = <<>>
    /\ llm_trace' = NoTrace
    /\ UNCHANGED <<db_receipts, db_extracted, local_metadata, audit_log>>

\* the dictionary the manual-entry form stores (show_manual_extraction_form);
\* its three deductions are not rounded: they are kept in hundredths of a cent
manual_entry_data(category, total_amount, vat_breakdown) ==
    LET total_vat == SumValues(vat_breakdown)
        pct == apply_tax_rules(category, NoTaxRules)
    IN  [category |-> category,
         total_amount |-> total_amount,
         vat_breakdown |-> vat_breakdown,
         confidence |-> 100,
         vat_deductible_percentage |-> pct.vat_deductible_percentage,
         ib_deductible_percentage |-> pct.ib_deductible_percentage,
         amount_excl_vat |-> total_amount - total_vat,
         vat_deductible_amount_x100 |-> total_vat * pct.vat_deductible_percentage,
         remainder_after_vat_x100 |->
             total_amount * 100 - total_vat * pct.vat_deductible_percentage,
         profit_deduction_x100 |->
             (total_amount - total_vat) * pct.ib_deductible_percentage,
         manual_entry |-> TRUE]

\* the manual-entry form (show_manual_extraction_form) and the edit form of
\* receipt management: update_receipt_data on a receipt of the JSON store
ManualEntry ==
    /\ pc = "idle"
    /\ \E rid \in LocalIds(local_metadata), c \in {"Vervoerskosten"} :
          local_metadata' = update_receipt_data(local_metadata, rid,
              manual_entry_data(c, 2100, ("6" :> 0 @@ "9" :> 173 @@ "21" :> 0)))
    /\ UNCHANGED <<db_receipts, db_extracted, pc, cur, result, queue,
                   run_writes, llm_trace, audit_log>>

\* receipt management, "Goedkeuren": update_receipt_status(receipt_id, 'completed')
ApproveReceipt ==
    /\ pc = "idle"
    /\ \E rid \in LocalIds(local_metadata) :
          local_metadata' = local_update_receipt_status(local_metadata, rid,
                                                        "completed", NoneVal)
    /\ UNCHANGED <<db_receipts, db_extracted, pc, cur, result, queue,
                   run_writes, llm_trace, audit_log>>

PipeNext ==
    \/ SaveReceiptToDb
    \/ UploadFile
    \/ DirectProcess
    \/ ReprocessFailed
    \/ ProcessStart
    \/ LLMStep
    \/ OldOcrStep
    \/ SaveStep
    \/ CompleteStep
    \/ ExceptStep
    \/ UploadReturn
    \/ DirectReturn
    \/ BatchReturn
    \/ ManualEntry
    \/ ApproveReceipt

(***************************************************************************)
(* Part II: services/exchange_rate_service.py                              *)
(*                                                                         *)
(* Rates are in thousandths, amounts in cents, dates are day numbers.  A   *)
(* cache key "{from}_{to}_{date}" of two ISO currency codes and a date is  *)
(* the triple <<from, to, date>>.                                          *)
(***************************************************************************)
VARIABLES
    cache,        \* ExchangeRateService.cache: key -> entry
    cache_saved,  \* whether the last _save_cache wrote exchange_rates_cache.json
    today,        \* date.today()
    rate_call,    \* the last operation on the service and what it did
    rate_result   \* the value the last operation returned

rateVars == <<cache, cache_saved, today, rate_call, rate_result>>


\* ExchangeRateService.CACHE_DAYS
CACHE_DAYS == 90
\* days _get_fallback_rate looks back: range(1, 31)
FALLBACK_DAYS == 30
\* the day of the model's calendar on which the calls are made
FirstToday == 100

Currencies == {"USD", "TRY", "EUR"}
\* how many days before "today" a requested date lies
DateOffsets == {1, FALLBACK_DAYS, FALLBACK_DAYS + 1}
\* the endpoint's answers: an exception (HTTP error, timeout, missing key),
\* or a rate with its date; the endpoint answers with the rate of the last
\* business day, so the date of its answer is the requested date (lag 0) or
\* an earlier day (lag 1)
ApiReplies ==
    { [kind |-> "raise", rate |-> 0, lag |-> 0],
      [kind |-> "ok", rate |-> 920, lag |-> 0],
      [kind |-> "ok", rate |-> 28, lag |-> 1] }
Amounts == {10000}

CacheKey(from_currency, to_currency, rate_date) ==
    <<from_currency, to_currency, rate_date>>

\* _fetch_from_api on an answer that did not raise
fetch_from_api(from_currency, to_currency, rate_date, reply) ==
    [success |-> TRUE, rate |-> reply.rate, date |-> rate_date - reply.lag,
     source |-> "frankfurter", from_currency |-> from_currency,
     to_currency |-> to_currency]

\* _get_fallback_rate that answers with the rate of
\* Config.FALLBACK_EXCHANGE_RATES when the cache has no entry of the last 30 days
get_fallback_rate_configured(c, now, from_currency, to_currency) ==
    LET hits == {d \in 1..FALLBACK_DAYS :
                    CacheKey(from_currency, to_currency, now - d) \in DOMAIN c}
    IN  IF hits = {}
        THEN {[success |-> TRUE,
               rate |-> IF from_currency = "USD" THEN 920 ELSE 28, date |-> now,
               source |-> "fallback_config", from_currency |-> from_currency,
               to_currency |-> to_currency, original_date |-> now,
               requested_date |-> now]}
        ELSE LET days_ago == CHOOSE d \in hits : \A e \in hits : d <= e
                 cached_data == c[CacheKey(from_currency, to_currency, now - days_ago)]
             IN  {[success |-> TRUE, rate |-> cached_data.rate,
                   date |-> cached_data.date, source |-> "cache_fallback",
                   from_currency |-> cached_data.from_currency,
                   to_currency |-> cached_data.to_currency,
                   original_date |-> cached_data.date,
                   requested_date |-> now]}

\* _get_fallback_rate: the entry of the nearest of the last 30 days before
\* today that has one, as a copy tagged cache_fallback; {} when there is none
get_fallback_rate(c, now, from_currency, to_currency) ==
    LET hits == {d \in 1..FALLBACK_DAYS :
                    CacheKey(from_currency, to_currency, now - d) \in DOMAIN c}
    IN  IF hits = {} THEN {}
        ELSE LET days_ago == CHOOSE d \in hits : \A e \in hits : d <= e
                 cached_data == c[CacheKey(from_currency, to_currency, now - days_ago)]
             IN  {[success |-> TRUE, rate |-> cached_data.rate,
                   date |-> cached_data.date, source |-> "cache_fallback",
                   from_currency |-> cached_data.from_currency,
                   to_currency |-> cached_data.to_currency,
                   original_date |-> cached_data.date,
                   requested_date |-> now]}

\* _save_cache: the whole cache is written to the file; an exception of the
\* write is logged and swallowed; the value is whether the file was written
save_cache(c, outcome) == outcome = "ok"

\* an optional date argument is {} (None) or {d}; "rate_date or date.today()"
DateOrToday(rate_date, now) ==
    IF rate_date = {} THEN now ELSE CHOOSE d \in rate_date : TRUE

\* get_exchange_rate that returns the fetched rate without storing it
get_exchange_rate_no_store(c, saved, now, from_currency, to_currency, rate_date, reply, io) ==
    IF from_currency = to_currency
    THEN [cache |-> c, saved |-> saved, api |-> FALSE,
          result |-> [success |-> TRUE, rate |-> 1000,
                      date |-> DateOrToday(rate_date, now),
                      source |-> "no_conversion", from_currency |-> from_currency,
                      to_currency |-> to_currency]]
    ELSE LET d == DateOrToday(rate_date, now)
             cache_key == CacheKey(from_currency, to_currency, d)
         IN  IF cache_key \in DOMAIN c
             THEN [cache |-> c, saved |-> saved, api |-> FALSE, result |-> c[cache_key]]
             ELSE IF reply.kind = "ok"
             THEN LET rate_data == fetch_from_api(from_currency, to_currency, d, reply)
                  IN  [cache |-> c, saved |-> saved, api |-> TRUE,
                       result |-> rate_data]
             ELSE LET fallback == get_fallback_rate(c, now, from_currency, to_currency)
                  IN  [cache |-> c, saved |-> saved, api |-> TRUE,
                       result |-> IF fallback # {}
                                  THEN CHOOSE f \in fallback : TRUE
                                  ELSE [success |-> FALSE, error |-> "request failed",
                                        from_currency |-> from_currency,
                                        to_currency |-> to_currency, date |-> d]]

\* get_exchange_rate that stores the fallback it serves under the requested key
get_exchange_rate_store_fallback(c, saved, now, from_currency, to_currency, rate_date, reply, io) ==
    IF from_currency = to_currency
    THEN [cache |-> c, saved |-> saved, api |-> FALSE,
          result |-> [success |-> TRUE, rate |-> 1000,
                      date |-> DateOrToday(rate_date, now),
                      source |-> "no_conversion", from_currency |-> from_currency,
                      to_currency |-> to_currency]]
    ELSE LET d == DateOrToday(rate_date, now)
             cache_key == CacheKey(from_currency, to_currency, d)
         IN  IF cache_key \in DOMAIN c
             THEN [cache |-> c, saved |-> saved, api |-> FALSE, result |-> c[cache_key]]
             ELSE IF reply.kind = "ok"
             THEN LET rate_data == fetch_from_api(from_currency, to_currency, d, reply)
                      c2 == [k \in DOMAIN c \cup {cache_key} |->
                                IF k = cache_key THEN rate_data ELSE c[k]]
                  IN  [cache |-> c2, saved |-> save_cache(c2, io), api |-> TRUE,
                       result |-> rate_data]
             ELSE LET fallback == get_fallback_rate(c, now, from_currency, to_currency)
                  IN  [cache |-> IF fallback = {} THEN c
                                 ELSE [k \in DOMAIN c \cup {cache_key} |->
                                          IF k = cache_key
                                          THEN CHOOSE f \in fallback : TRUE
                                          ELSE c[k]],
                       saved |-> saved, api |-> TRUE,
                       result |-> IF fallback # {}
                                  THEN CHOOSE f \in fallback : TRUE
                                  ELSE [success |-> FALSE, error |-> "request failed",
                                        from_currency |-> from_currency,
                                        to_currency |-> to_currency, date |-> d]]

\* get_exchange_rate without the same-currency shortcut
get_exchange_rate_always_lookup(c, saved, now, from_currency, to_currency, rate_date, reply, io) ==
    LET d == DateOrToday(rate_date, now)
             cache_key == CacheKey(from_currency, to_currency, d)
         IN  IF cache_key \in DOMAIN c
             THEN [cache |-> c, saved |-> saved, api |-> FALSE, result |-> c[cache_key]]
             ELSE IF reply.kind = "ok"
             THEN LET rate_data == fetch_from_api(from_currency, to_currency, d, reply)
                      c2 == [k \in DOMAIN c \cup {cache_key} |->
                                IF k = cache_key THEN rate_data ELSE c[k]]
                  IN  [cache |-> c2, saved |-> save_cache(c2, io), api |-> TRUE,
                       result |-> rate_data]
             ELSE LET fallback == get_fallback_rate(c, now, from_currency, to_currency)
                  IN  [cache |-> c, saved |-> saved, api |-> TRUE,
                       result |-> IF fallback # {}
                                  THEN CHOOSE f \in fallback : TRUE
                                  ELSE [success |-> FALSE, error |-> "request failed",
                                        from_currency |-> from_currency,
                                        to_currency |-> to_currency, date |-> d]]

\* get_exchange_rate that calls _save_cache after a lookup that failed as well
get_exchange_rate_save_on_failure(c, saved, now, from_currency, to_currency, rate_date, reply, io) ==
    IF from_currency = to_currency
    THEN [cache |-> c, saved |-> saved, api |-> FALSE,
          result |-> [success |-> TRUE, rate |-> 1000,
                      date |-> DateOrToday(rate_date, now),
                      source |-> "no_conversion", from_currency |-> from_currency,
                      to_currency |-> to_currency]]
    ELSE LET d == DateOrToday(rate_date, now)
             cache_key == CacheKey(from_currency, to_currency, d)
         IN  IF cache_key \in DOMAIN c
             THEN [cache |-> c, saved |-> saved, api |-> FALSE, result |-> c[cache_key]]
             ELSE IF reply.kind = "ok"
             THEN LET rate_data == fetch_from_api(from_currency, to_currency, d, reply)
                      c2 == [k \in DOMAIN c \cup {cache_key} |->
                                IF k = cache_key THEN rate_data ELSE c[k]]
                  IN  [cache |-> c2, saved |-> save_cache(c2, io), api |-> TRUE,
                       result |-> rate_data]
             ELSE LET fallback == get_fallback_rate(c, now, from_currency, to_currency)
                  IN  [cache |-> c, saved |-> save_cache(c, io), api |-> TRUE,
                       result |-> IF fallback # {}
                                  THEN CHOOSE f \in fallback : TRUE
                                  ELSE [success |-> FALSE, error |-> "request failed",
                                        from_currency |-> from_currency,
                                        to_currency |-> to_currency, date |-> d]]

\* get_exchange_rate: [cache, saved, result, api] after the call; api tells
\* whether the endpoint was called
get_exchange_rate(c, saved, now, from_currency, to_currency, rate_date, reply, io) ==
    IF from_currency = to_currency
    THEN [cache |-> c, saved |-> saved, api |-> FALSE,
          result |-> [success |-> TRUE, rate |-> 1000,
                      date |-> DateOrToday(rate_date, now),
                      source |-> "no_conversion", from_currency |-> from_currency,
                      to_currency |-> to_currency]]
    ELSE LET d == DateOrToday(rate_date, now)
             cache_key == CacheKey(from_currency, to_currency, d)
         IN  IF cache_key \in DOMAIN c
             THEN [cache |-> c, saved |-> saved, api |-> FALSE, result |-> c[cache_key]]
             ELSE IF reply.kind = "ok"
             THEN LET rate_data == fetch_from_api(from_currency, to_currency, d, reply)
                      c2 == [k \in DOMAIN c \cup {cache_key} |->
                                IF k = cache_key THEN rate_data ELSE c[k]]
                  IN  [cache |-> c2, saved |-> save_cache(c2, io), api |-> TRUE,
                       result |-> rate_data]
             ELSE LET fallback == get_fallback_rate(c, now, from_currency, to_currency)
                  IN  [cache |-> c, saved |-> saved, api |-> TRUE,
                       result |-> IF fallback # {}
                                  THEN CHOOSE f \in fallback : TRUE
                                  ELSE [success |-> FALSE, error |-> "request failed",
                                        from_currency |-> from_currency,
                                        to_currency |-> to_currency, date |-> d]]

\* convert_amount: the failure of get_exchange_rate, or amount * rate
\* (cents * thousandths: converted_amount is in thousandths of a cent)
convert_amount(c, saved, now, amount, from_currency, to_currency, rate_date, reply, io) ==
    LET r == get_exchange_rate(c, saved, now, from_currency, to_currency,
                               rate_date, reply, io)
        rate_data == r.result
    IN  [r EXCEPT !.result =
            IF ~rate_data.success THEN rate_data
            ELSE [success |-> TRUE, original_amount |-> amount,
                  original_currency |-> from_currency,
                  converted_amount |-> amount * rate_data.rate,
                  converted_currency |-> to_currency,
                  exchange_rate |-> rate_data.rate,
                  exchange_rate_date |-> rate_data.date,
                  source |-> rate_data.source]]

\* clear_old_cache: keeps the entries whose date is not before the cutoff;
\* the file is saved only when an entry was removed
clear_old_cache(c, saved, now, days, io) ==
    LET cutoff_date == now - days
        kept == {k \in DOMAIN c : c[k].date >= cutoff_date}
        c2 == [k \in kept |-> c[k]]
    IN  [cache |-> c2,
         saved |-> IF kept # DOMAIN c THEN save_cache(c2, io) ELSE saved]

NoRateCall == [op |-> "none"]
NoRateResult == [success |-> FALSE]

RateInit ==
    /\ cache = <<>>
    /\ cache_saved = TRUE
    /\ today = FirstToday
    /\ rate_call = NoRateCall
    /\ rate_result = NoRateResult

\* the dates a caller asks for: None (today) or a date up to 31 days back
RequestDates == {{}} \cup {{today - k} : k \in DateOffsets}

\* the endpoint answers only when it is asked: a call for one currency or
\* for a cached key consumes no answer
NoReply == [kind |-> "none", rate |-> 0, lag |-> 0]
RepliesTo(from_currency, to_currency, rate_date) ==
    IF \/ from_currency = to_currency
       \/ CacheKey(from_currency, to_currency, DateOrToday(rate_date, today))
              \in DOMAIN cache
    THEN {NoReply} ELSE ApiReplies
\* the file is written only after an answer that did not raise
SaveOutcomes(reply) == IF reply.kind = "ok" THEN DbOutcomes ELSE {"ok"}

\* what the action records about a call: its arguments, the endpoint's
\* answer when the endpoint was called, and whether the call found its key
\* in the cache; of clear_old_cache, the number of entries it logs as cleared
RateCall(op, amount, from_currency, to_currency, rate_date, r, reply) ==
    [op |-> op, amount |-> amount, from_currency |-> from_currency,
     to_currency |-> to_currency,
     date |-> DateOrToday(rate_date, today),
     api |-> IF r.api THEN reply.kind ELSE "none",
     api_rate |-> IF r.api THEN reply.rate ELSE 0,
     cached_before |-> CacheKey(from_currency, to_currency,
                                DateOrToday(rate_date, today)) \in DOMAIN cache]

GetExchangeRate ==
    \E f \in Currencies, t \in {"EUR"}, d \in RequestDates :
      \E reply \in RepliesTo(f, t, d) : \E io \in SaveOutcomes(reply) :
        \E r \in {get_exchange_rate(cache, cache_saved, today, f, t, d, reply, io)} :
            /\ Cardinality(DOMAIN r.cache) <= MaxCacheEntries
            /\ cache' = r.cache
            /\ cache_saved' = r.saved
            /\ rate_result' = r.result
            /\ rate_call' = RateCall("get_exchange_rate", 0, f, t, d, r, reply)
            /\ UNCHANGED today

ConvertAmount ==
    \E a \in Amounts, f \in Currencies, t \in {"EUR"}, d \in RequestDates :
      \E reply \in RepliesTo(f, t, d) : \E io \in SaveOutcomes(reply) :
        \E r \in {convert_amount(cache, cache_saved, today, a, f, t, d, reply, io)} :
            /\ Cardinality(DOMAIN r.cache) <= MaxCacheEntries
            /\ cache' = r.cache
            /\ cache_saved' = r.saved
            /\ rate_result' = r.result
            /\ rate_call' = RateCall("convert_amount", a, f, t, d, r, reply)
            /\ UNCHANGED today

ClearOldCache ==
    \E days \in {CACHE_DAYS, FALLBACK_DAYS, 1}, io \in DbOutcomes :
        \E r \in {clear_old_cache(cache, cache_saved, today, days, io)} :
            /\ cache' = r.cache
            /\ cache_saved' = r.saved
            /\ rate_call' = [op |-> "clear_old_cache", days |-> days,
                             removed |-> Cardinality(DOMAIN cache)
                                            - Cardinality(DOMAIN r.cache)]
            /\ rate_result' = NoRateResult
            /\ UNCHANGED today

RateNext ==
    \/ GetExchangeRate
    \/ ConvertAmount
    \/ ClearOldCache

(***************************************************************************)
(* Part III: the computations of utils/calculations.py and of              *)
(* services/llm_service.py as functions of their arguments.  A call is     *)
(* drawn in the initial state and the action of its function applies it.   *)
(***************************************************************************)
VARIABLES
    pure_call,   \* the function called and its arguments
    pure_ret     \* what it returned; NoReturn before the call

calcVars == <<pure_call, pure_ret>>

NoPureCall == [fn |-> "none"]
NoReturn == [fn |-> "none"]

\* a category label outside Config.EXPENSE_CATEGORIES
UnknownCategory == "Boodschappen"
CategoryArgs == EXPENSE_CATEGORIES \cup {UnknownCategory}

\* amounts in cents: the small ones, and 19.27 excl. VAT with 1.73 VAT
ExclAmounts == (0..MaxCents) \cup {1927}
VatAmounts == (0..MaxCents) \cup {173}
Percentages == {0, 25, 50, 80, 100}

\* round(x, 2) of a float whose decimal value is n / 10000 cents (see Round2)
Round4(n, up) == (n + (IF up THEN 5000 ELSE 4999)) \div 10000

\* default_rules of calculate_tax_deductions; unknown categories get 100/100
calc_default_rules(category) ==
    IF category \in {"Representatiekosten - Type 1 (Supermarket)",
                     "Representatiekosten - Type 2 (Horeca)"}
    THEN [vat |-> 0, ib |-> 80]
    ELSE [vat |-> 100, ib |-> 100]

\* the sides of the floats of the six rounded values of calculate_tax_deductions
DeductionTies ==
    [vat_deductible : BOOLEAN, ib_deductible : BOOLEAN, remainder : BOOLEAN,
     profit : BOOLEAN, total_deductible : BOOLEAN, net_cost : BOOLEAN]

\* calculate_tax_deductions, in cents; custom_percentages is a function
\* category -> [vat, ib], empty for None
calculate_tax_deductions(category, amount_excl_vat, vat_amount, custom_percentages, ties) ==
    LET rules == IF category \in DOMAIN custom_percentages
                 THEN custom_percentages[category]
                 ELSE calc_default_rules(category)
        \* in hundredths of a cent
        vat_deductible == vat_amount * rules.vat
        ib_deductible == amount_excl_vat * rules.ib
        remainder_after_vat == (amount_excl_vat + vat_amount) * 100 - vat_deductible
        \* in 1/10000 of a cent
        profit_deduction == remainder_after_vat * rules.ib
    IN  [vat_deductible_percentage |-> rules.vat,
         ib_deductible_percentage |-> rules.ib,
         vat_deductible_amount |-> Round2(vat_deductible, ties.vat_deductible),
         ib_deductible_amount |-> Round2(ib_deductible, ties.ib_deductible),
         remainder_after_vat |-> Round2(remainder_after_vat, ties.remainder),
         profit_deduction |-> Round4(profit_deduction, ties.profit),
         total_deductible |-> Round4(vat_deductible * 100 + profit_deduction,
                                     ties.total_deductible),
         net_cost |-> Round4((amount_excl_vat + vat_amount) * 10000
                                 - vat_deductible * 100 - profit_deduction,
                             ties.net_cost)]

\* the overrides a caller passes as custom_percentages
CustomPercentages ==
    {<<>>} \cup { (c :> [vat |-> v, ib |-> i]) :
                     c \in {"Kantoorkosten", "Representatiekosten - Type 2 (Horeca)"},
                     v \in {25, 50}, i \in {50, 100} }

\* the VAT breakdown of the structured data with v cents of VAT
VatBreakdownOf(v) == ("6" :> 0 @@ "9" :> v @@ "21" :> 0)

\* the calls of the tax computations; the total of the structured data is
\* its amount excluding VAT plus its VAT
TaxCalls ==
    { [fn |-> "calculate_tax_amounts", total_amount |-> e + v,
       vat_breakdown |-> VatBreakdownOf(v),
       vat_deductible_percentage |-> p, ib_deductible_percentage |-> q] :
          e \in ExclAmounts, v \in VatAmounts, p \in Percentages, q \in Percentages }
    \cup
    [fn : {"calculate_tax_deductions"}, category : CategoryArgs,
     amount_excl_vat : ExclAmounts, vat_amount : VatAmounts,
     custom_percentages : CustomPercentages]

(***************************************************************************)
(* The reports: utils/calculations.py (calculate_quarterly_vat,            *)
(* calculate_annual_summary) and generate_quarterly_report of              *)
(* services/export_service.py with get_receipts_for_export.  The amounts   *)
(* of the records of a report are floats that need not be whole cents (the *)
(* VAT amounts are the numbers of the step-2 reply): they are in tenths of *)
(* a cent here, and the rounded figures of a report are in cents.  Dates   *)
(* are day numbers of one year, a datetime is 2 * day, plus 1 after        *)
(* midnight.                                                               *)
(***************************************************************************)
\* round(x, 2) of a float whose decimal value is n / scale cents, in cents
\* (see Round2)
RoundCents(n, scale, up) ==
    (n + (IF up THEN scale \div 2 ELSE scale \div 2 - 1)) \div scale

RECURSIVE SeqSum(_)
SeqSum(s) == IF s = << >> THEN 0 ELSE Head(s) + SeqSum(Tail(s))

\* receipt.get('vat_breakdown', {}) of a record without breakdown
NoBreakdown == [k \in {} |-> 0]

\* the keys of summary['vat_on_purchases']
VatSummaryKeys == {"6", "9", "21", "total"}

\* the two values the reports read from calculate_tax_deductions(category,
\* amount_excl_vat, vat_amount) with the default rules, for amounts in tenths
\* of a cent
report_deductions(category, amount_excl_vat, vat_amount, up) ==
    LET rules == calc_default_rules(category)
        \* in 1/1000 of a cent
        vat_deductible == vat_amount * rules.vat
        remainder_after_vat == (amount_excl_vat + vat_amount) * 100 - vat_deductible
    IN  [vat_deductible_amount |-> RoundCents(vat_deductible, 1000, up),
         profit_deduction |-> RoundCents(remainder_after_vat * rules.ib, 100000, up)]

\* calculate_quarterly_vat.  record_up is the side of the floats of the
\* records at the roundings of calculate_tax_deductions; up is the side of
\* the sums of this call at a decimal tie, which depends on the order in
\* which the floats were added.
calculate_quarterly_vat(receipts, record_up, up) ==
    LET n == Len(receipts)
        amount_excl(i) == GetOr(receipts[i], "amount_excl_vat", 0)
        vat_breakdown(i) == GetOr(receipts[i], "vat_breakdown", NoBreakdown)
        category(i) == GetOr(receipts[i], "category", "Kantoorkosten")
        deductions(i) == report_deductions(category(i), amount_excl(i),
                                           SumValues(vat_breakdown(i)), record_up)
        \* what the loop over vat_breakdown.items() adds to key 'total': every
        \* amount of a key of the summary, and the amount under 'total' twice
        added_to_total(i) ==
            SumValues([k \in DOMAIN vat_breakdown(i) \cap VatSummaryKeys |->
                          vat_breakdown(i)[k]])
                + GetOr0(vat_breakdown(i), "total")
        deductible_vat == SeqSum([i \in 1..n |-> deductions(i).vat_deductible_amount])
    IN  [total_sales |-> 0,
         vat_on_sales |-> 0,
         total_purchases |-> RoundCents(SeqSum([i \in 1..n |-> amount_excl(i)]), 10, up),
         vat_on_purchases |->
             [k \in VatSummaryKeys |->
                 RoundCents(SeqSum([i \in 1..n |->
                                IF k = "total" THEN added_to_total(i)
                                ELSE GetOr0(vat_breakdown(i), k)]), 10, up)],
         deductible_vat |-> deductible_vat,
         non_deductible_vat |->
             RoundCents(SeqSum([i \in 1..n |->
                            SumValues(vat_breakdown(i))
                                - 10 * deductions(i).vat_deductible_amount]), 10, up),
         vat_balance |-> 0 - deductible_vat,
         receipt_count |-> n]

\* the first day of each month of a year of 365 days, and of the next year
MonthStart == <<1, 32, 60, 91, 121, 152, 182, 213, 244, 274, 305, 335, 366>>

\* receipt_date.strftime('%Y-%m'): the month of a day of the year
month_key(day) == CHOOSE m \in 1..12 : MonthStart[m] <= day /\ day < MonthStart[m + 1]

\* calculate_annual_summary that creates the totals of a category when it
\* meets the first record of the category
calculate_annual_summary_lazy_categories(receipts, record_up, up) ==
    LET n == Len(receipts)
        amount_excl(i) == GetOr(receipts[i], "amount_excl_vat", 0)
        vat_amount(i) == SumValues(GetOr(receipts[i], "vat_breakdown", NoBreakdown))
        total_amount(i) == amount_excl(i) + vat_amount(i)
        category(i) == GetOr(receipts[i], "category", "Kantoorkosten")
        deductions(i) == report_deductions(category(i), amount_excl(i),
                                           vat_amount(i), record_up)
        receipt_date(i) == GetOr(receipts[i], "date", {})
        months == UNION {{month_key(d) : d \in receipt_date(i)} : i \in 1..n}
        In(c) == {i \in 1..n : category(i) = c}
        Of(m) == {i \in 1..n : \E d \in receipt_date(i) : month_key(d) = m}
        Sum(I, kind) ==
            SeqSum([i \in 1..n |->
                       IF i \notin I THEN 0
                       ELSE CASE kind = "amount_excl_vat" -> amount_excl(i)
                              [] kind = "vat" -> vat_amount(i)
                              [] kind = "total" -> total_amount(i)
                              [] kind = "vat_refunded" ->
                                     deductions(i).vat_deductible_amount
                              [] kind = "deductible" -> deductions(i).profit_deduction
                              [] kind = "non_deductible" ->
                                     amount_excl(i) - 10 * deductions(i).profit_deduction])
    IN  [total_expenses |-> RoundCents(Sum(1..n, "total"), 10, up),
         total_vat_paid |-> RoundCents(Sum(1..n, "vat"), 10, up),
         total_vat_refunded |-> Sum(1..n, "vat_refunded"),
         by_category |->
             [c \in {category(i) : i \in 1..n} \cap EXPENSE_CATEGORIES |->
                 [count |-> Cardinality(In(c)),
                  amount_excl_vat |-> RoundCents(Sum(In(c), "amount_excl_vat"), 10, up),
                  vat |-> RoundCents(Sum(In(c), "vat"), 10, up),
                  total |-> RoundCents(Sum(In(c), "total"), 10, up),
                  deductible |-> Sum(In(c), "deductible")]],
         by_month |->
             [m \in months |->
                 [count |-> Cardinality(Of(m)),
                  total |-> RoundCents(Sum(Of(m), "total"), 10, up),
                  vat |-> RoundCents(Sum(Of(m), "vat"), 10, up),
                  deductible |-> Sum(Of(m), "deductible")]],
         deductible_expenses |-> Sum(1..n, "deductible"),
         non_deductible_expenses |-> RoundCents(Sum(1..n, "non_deductible"), 10, up),
         receipt_count |-> n]

\* calculate_annual_summary; date is {} for a record without date
calculate_annual_summary(receipts, record_up, up) ==
    LET n == Len(receipts)
        amount_excl(i) == GetOr(receipts[i], "amount_excl_vat", 0)
        vat_amount(i) == SumValues(GetOr(receipts[i], "vat_breakdown", NoBreakdown))
        total_amount(i) == amount_excl(i) + vat_amount(i)
        category(i) == GetOr(receipts[i], "category", "Kantoorkosten")
        deductions(i) == report_deductions(category(i), amount_excl(i),
                                           vat_amount(i), record_up)
        receipt_date(i) == GetOr(receipts[i], "date", {})
        months == UNION {{month_key(d) : d \in receipt_date(i)} : i \in 1..n}
        In(c) == {i \in 1..n : category(i) = c}
        Of(m) == {i \in 1..n : \E d \in receipt_date(i) : month_key(d) = m}
        Sum(I, kind) ==
            SeqSum([i \in 1..n |->
                       IF i \notin I THEN 0
                       ELSE CASE kind = "amount_excl_vat" -> amount_excl(i)
                              [] kind = "vat" -> vat_amount(i)
                              [] kind = "total" -> total_amount(i)
                              [] kind = "vat_refunded" ->
                                     deductions(i).vat_deductible_amount
                              [] kind = "deductible" -> deductions(i).profit_deduction
                              [] kind = "non_deductible" ->
                                     amount_excl(i) - 10 * deductions(i).profit_deduction])
    IN  [total_expenses |-> RoundCents(Sum(1..n, "total"), 10, up),
         total_vat_paid |-> RoundCents(Sum(1..n, "vat"), 10, up),
         total_vat_refunded |-> Sum(1..n, "vat_refunded"),
         by_category |->
             [c \in EXPENSE_CATEGORIES |->
                 [count |-> Cardinality(In(c)),
                  amount_excl_vat |-> RoundCents(Sum(In(c), "amount_excl_vat"), 10, up),
                  vat |-> RoundCents(Sum(In(c), "vat"), 10, up),
                  total |-> RoundCents(Sum(In(c), "total"), 10, up),
                  deductible |-> Sum(In(c), "deductible")]],
         by_month |->
             [m \in months |->
                 [count |-> Cardinality(Of(m)),
                  total |-> RoundCents(Sum(Of(m), "total"), 10, up),
                  vat |-> RoundCents(Sum(Of(m), "vat"), 10, up),
                  deductible |-> Sum(Of(m), "deductible")]],
         deductible_expenses |-> Sum(1..n, "deductible"),
         non_deductible_expenses |-> RoundCents(Sum(1..n, "non_deductible"), 10, up),
         receipt_count |-> n]

\* the records given to the reports: three purchases of January whose VAT the
\* reply gave to a tenth of a cent (3.916, 2.226, 3.473), and a restaurant
\* bill without date
ReportRecords ==
    { [amount_excl_vat |-> 18650, vat_breakdown |-> ("21" :> 3916),
       category |-> "Kantoorkosten", date |-> {15}],
      [amount_excl_vat |-> 10600, vat_breakdown |-> ("21" :> 2226),
       category |-> "Kantoorkosten", date |-> {20}],
      [amount_excl_vat |-> 16540, vat_breakdown |-> ("21" :> 3473),
       category |-> "Kantoorkosten", date |-> {25}],
      [amount_excl_vat |-> 5000, vat_breakdown |-> ("9" :> 450),
       category |-> "Representatiekosten - Type 2 (Horeca)"] }

\* the lists of at most MaxReportRecords different records of a set
ListsOf(records) ==
    UNION { { s \in [1..n -> records] : \A i, j \in 1..n : s[i] = s[j] => i = j } :
               n \in 0..MaxReportRecords }

\* the orders of a list
PermutationsOf(s) ==
    { [i \in 1..Len(s) |-> s[p[i]]] : p \in Permutations(1..Len(s)) }

\* the floats a + b and b + a are the same: the sum of a list depends on its
\* order up to the order of its first two records
OrderOf(s) == IF Len(s) < 2 THEN <<{}, s>> ELSE <<{s[1], s[2]}, SubSeq(s, 3, Len(s))>>

\* calls of a report on a list and on one of its orders
ReducerCalls ==
    UNION { [fn : {"calculate_quarterly_vat", "calculate_annual_summary"},
             receipts : {s}, permuted : PermutationsOf(s), record_up : BOOLEAN] :
               s \in ListsOf(ReportRecords) }

\* quarter_dates of generate_quarterly_report, as datetimes (midnight)
quarter_dates(quarter) ==
    [start_date |-> 2 * MonthStart[3 * quarter - 2],
     end_date |-> 2 * (MonthStart[3 * quarter + 1] - 1)]

\* local_storage.filter_receipts(start_date, end_date, status)
filter_receipts(metadata, start_date, end_date, status) ==
    LET keep(receipt) ==
            /\ ~(receipt.upload_date < start_date)
            /\ ~(receipt.upload_date > end_date)
            /\ receipt.processing_status = status
    IN  SelectSeq(metadata, keep)

\* the record get_receipts_for_export builds of a receipt; it has the VAT
\* amounts under vat_6, vat_9 and vat_21 and no key vat_breakdown
export_record(receipt) ==
    LET extracted == receipt.extracted_data
        vat_breakdown == GetOr(extracted, "vat_breakdown", NoBreakdown)
    IN  [transaction_date |-> GetOr(extracted, "date", {}),
         category |-> GetOr(extracted, "category", "Niet gecategoriseerd"),
         amount_excl_vat |-> GetOr(extracted, "amount_excl_vat", 0),
         vat_6 |-> GetOr0(vat_breakdown, "6"),
         vat_9 |-> GetOr0(vat_breakdown, "9"),
         vat_21 |-> GetOr0(vat_breakdown, "21")]

\* sorted(result, key=transaction_date) of records that all have a date
RECURSIVE sorted_by_date(_)
sorted_by_date(records) ==
    IF records = << >> THEN << >>
    ELSE LET day(i) == CHOOSE d \in records[i].transaction_date : TRUE
             \* the first record with the earliest date (the sort is stable)
             first == CHOOSE i \in 1..Len(records) :
                         /\ \A j \in 1..Len(records) : day(i) <= day(j)
                         /\ \A j \in 1..(i - 1) : day(j) > day(i)
         IN  <<records[first]>> \o
             sorted_by_date(SubSeq(records, 1, first - 1)
                                \o SubSeq(records, first + 1, Len(records)))

\* get_receipts_for_export(user_id, date_from, date_to): sorting two or more
\* records of which one has no date raises (None against datetime), and the
\* function returns [] from its except block
get_receipts_for_export(metadata, date_from, date_to) ==
    LET receipts == filter_receipts(metadata, date_from, date_to, "completed")
        records == [i \in 1..Len(receipts) |-> export_record(receipts[i])]
    IN  IF Len(records) >= 2 /\ \E i \in 1..Len(records) : records[i].transaction_date = {}
        THEN << >>
        ELSE IF Len(records) < 2 THEN records
        ELSE sorted_by_date(records)

\* generate_quarterly_report(user_id, year, quarter) for the year of the model
generate_quarterly_report(metadata, quarter, record_up, up) ==
    LET receipts == get_receipts_for_export(metadata, quarter_dates(quarter).start_date,
                                            quarter_dates(quarter).end_date)
    IN  [period |-> quarter,
         receipt_count |-> Len(receipts),
         vat_summary |-> calculate_quarterly_vat(receipts, record_up, up),
         receipts |-> receipts]

\* receipts of the JSON store: uploaded at noon of 10 April; one bought in
\* March, one in April, one without date, and one that failed
StoredReceipts ==
    { [id |-> 1, upload_date |-> 2 * 100 + 1, processing_status |-> "completed",
       extracted_data |-> [amount_excl_vat |-> 10000, vat_breakdown |-> ("21" :> 2100),
                           category |-> "Kantoorkosten", date |-> {80}]],
      [id |-> 2, upload_date |-> 2 * 100 + 1, processing_status |-> "completed",
       extracted_data |-> [amount_excl_vat |-> 20000, vat_breakdown |-> ("9" :> 1800),
                           category |-> "Vervoerskosten", date |-> {95}]],
      [id |-> 3, upload_date |-> 2 * 100 + 1, processing_status |-> "completed",
       extracted_data |-> [amount_excl_vat |-> 0, vat_breakdown |-> ("21" :> 0),
                           category |-> "Kantoorkosten"]],
      [id |-> 4, upload_date |-> 2 * 100 + 1, processing_status |-> "failed",
       extracted_data |-> NoBreakdown] }

\* calls of generate_quarterly_report on a JSON store
ReportCalls ==
    [fn : {"generate_quarterly_report"}, metadata : ListsOf(StoredReceipts),
     quarter : 1..4, record_up : BOOLEAN]

\* vendor names as the words they are made of; none of the words holds a
\* keyword of categorize_from_data inside a longer word, so that "name in
\* vendor" is the occurrence of the keyword's words in the name
VendorNames ==
    { <<"Albert", "Heijn">>, <<"Shell", "Station">>, <<"Grand", "Cafe">>,
      <<"Bakkerij", "Jansen">>, << >> }
\* str.lower on the words of the vendor names
lower(word) ==
    CASE word = "Albert" -> "albert" [] word = "Heijn" -> "heijn"
      [] word = "Shell" -> "shell" [] word = "Station" -> "station"
      [] word = "Grand" -> "grand" [] word = "Cafe" -> "cafe"
      [] word = "Bakkerij" -> "bakkerij" [] word = "Jansen" -> "jansen"
      [] OTHER -> word
\* name in vendor
NameIn(name, vendor) ==
    \E i \in 0..(Len(vendor) - Len(name)) :
        \A j \in 1..Len(name) : vendor[i + j] = name[j]
\* any(name in vendor for name in names)
AnyNameIn(names, vendor) == \E name \in names : NameIn(name, vendor)

\* LLMService1Step.categorize_from_data of a record with this vendor_name
categorize_from_data(vendor_name) ==
    LET vendor == [i \in 1..Len(vendor_name) |-> lower(vendor_name[i])]
    IN  IF AnyNameIn({<<"albert", "heijn">>, <<"jumbo">>, <<"lidl">>, <<"aldi">>,
                      <<"plus">>}, vendor)
        THEN "Representatiekosten - Type 1 (Supermarket)"
        ELSE IF AnyNameIn({<<"restaurant">>, <<"cafe">>, <<"coffee">>, <<"koffie">>},
                          vendor)
        THEN "Representatiekosten - Type 2 (Horeca)"
        ELSE IF AnyNameIn({<<"shell">>, <<"esso">>, <<"bp">>, <<"tank">>}, vendor)
        THEN "Vervoerskosten"
        ELSE IF AnyNameIn({<<"staples">>, <<"office">>, <<"kantoor">>}, vendor)
        THEN "Kantoorkosten"
        ELSE IF AnyNameIn({<<"bol.com">>, <<"coolblue">>, <<"mediamarkt">>}, vendor)
        THEN "Beroepskosten"
        ELSE "Kantoorkosten"

\* A text of the structured-extraction call is a sequence of tokens: "{",
\* "}", "[", "]", a member of an object ("k:v"), a number ("7"), a word, a
\* whitespace character, a code fence of three backquotes ("<fence>") or the
\* fence's language tag.
\* The texts step 2 can return, each with the shape the reply has: a bare
\* object, an object in a code fence, an object with prose around it, a text
\* without JSON, a JSON list, prose with braces
ResponseTexts ==
    { [shape |-> "bare",    text |-> <<"{", "k:v", "}">>],
      [shape |-> "bare",    text |-> <<"\n", "{", "}", "\n">>],
      [shape |-> "fenced",  text |-> <<"<fence>", "json", "\n", "{", "k:v", "}", "\n", "<fence>">>],
      [shape |-> "fenced",  text |-> <<"<fence>", "\n", "{", "k:v", "}", "\n", "<fence>">>],
      [shape |-> "fenced",  text |-> <<"<fence>", "{", "k:v", "}", "<fence>">>],
      [shape |-> "prose",   text |-> <<"Here", " ", "{", "k:v", "}", " ", "thanks">>],
      [shape |-> "no_json", text |-> <<"Sorry">>],
      [shape |-> "no_json", text |-> << >>],
      [shape |-> "list",    text |-> <<"[", "7", "]">>],
      [shape |-> "braces",  text |-> <<"use", " ", "{", "curly", "}">>] }

\* json.loads: the documents among the token sequences, and their values;
\* every other text raises json.JSONDecodeError
JsonDocuments ==
    (<<"{", "k:v", "}">> :> [type |-> "dict", members |-> {"k:v"}])
 @@ (<<"{", "}">>        :> [type |-> "dict", members |-> {}])
 @@ (<<"[", "7", "]">>   :> [type |-> "list", members |-> {"7"}])
 @@ (<<"[", "]">>        :> [type |-> "list", members |-> {}])
 @@ (<<"7">>             :> [type |-> "int",  members |-> {}])
JSONDecodeError == [type |-> "JSONDecodeError", members |-> {}]
json_loads(text) ==
    IF strip(text) \in DOMAIN JsonDocuments
    THEN JsonDocuments[strip(text)] ELSE JSONDecodeError

\* text.split('\n')
RECURSIVE split_lines(_)
split_lines(text) ==
    IF \A i \in 1..Len(text) : text[i] # "\n" THEN <<text>>
    ELSE LET i == CHOOSE j \in 1..Len(text) :
                      text[j] = "\n" /\ \A k \in 1..(j - 1) : text[k] # "\n"
         IN  <<SubSeq(text, 1, i - 1)>> \o split_lines(SubSeq(text, i + 1, Len(text)))
\* '\n'.join(lines)
RECURSIVE join_lines(_)
join_lines(lines) ==
    IF lines = << >> THEN << >>
    ELSE IF Len(lines) = 1 THEN lines[1]
    ELSE lines[1] \o <<"\n">> \o join_lines(Tail(lines))

\* the text between the code fences: lines[1:-1], without a leading 'json'
unfence(text) ==
    IF text # << >> /\ text[1] = "<fence>"
    THEN LET lines == split_lines(text)
             inner == join_lines(SubSeq(lines, 2, Len(lines) - 1))
         IN  IF inner # << >> /\ inner[1] = "json" THEN Tail(inner) ELSE inner
    ELSE text

\* response_text[start:end] from the first '{' to the last '}', when both
\* exist in this order
embedded_braces(text) ==
    LET opens  == {i \in 1..Len(text) : text[i] = "{"}
        closes == {i \in 1..Len(text) : text[i] = "}"}
    IN  IF opens = {} THEN text
        ELSE LET start == CHOOSE i \in opens : \A j \in opens : i <= j
             IN  IF closes # {} /\ (CHOOSE i \in closes : \A j \in closes : j <= i) > start
                 THEN SubSeq(text, start, CHOOSE i \in closes : \A j \in closes : j <= i)
                 ELSE text

\* _parse_json_response on the text of the reply: what json.loads returns,
\* or the parse-error record on json.JSONDecodeError
parse_response_text(response_text) ==
    LET data == json_loads(embedded_braces(unfence(strip(response_text))))
    IN  IF data = JSONDecodeError
        THEN [type |-> "dict", parse_error |-> TRUE, members |-> {},
              confidence |-> ParseErrorRecord.confidence]
        ELSE [type |-> data.type, parse_error |-> FALSE, members |-> data.members,
              confidence |-> 0]

\* the texts _parse_json_response is called on
ParseCalls == [fn : {"parse_json_response"}, reply : ResponseTexts]

\* the 'date' of the extracted data: the key is missing ({}), or it holds
\* null, the empty string, a date, or a text that is no date
DateFields ==
    { {}, {NoneVal}, {""}, {"2024-03-15"}, {"32-13-2024"}, {"onbekend"} }
\* dateutil.parser.parse: the day (of the model's calendar) of a text that is
\* a date; every other text raises
ParsableDates == ("2024-03-15" :> 75)
\* _prepare_database_data, "Parse date": None ({}) when the field is missing
\* or falsy, else the parsed date, or datetime.now() when parsing raises
transaction_date_of(date_field, now) ==
    IF date_field = {} \/ date_field = {NoneVal} \/ date_field = {""}
    THEN {}
    ELSE LET text == CHOOSE d \in date_field : TRUE
         IN  IF text \in DOMAIN ParsableDates THEN {ParsableDates[text]} ELSE {now}

\* the records _prepare_database_data is called on, by their date
PrepareCalls == [fn : {"prepare_database_data"}, date : DateFields]

\* purchases as step 2 extracts them, in cents
Purchases ==
    { [category |-> "Kantoorkosten", total_amount |-> 12100,
       vat_breakdown |-> ("21" :> 2100)],
      [category |-> "Representatiekosten - Type 2 (Horeca)", total_amount |-> 5450,
       vat_breakdown |-> ("9" :> 450)] }
\* the user's category_tax_rules: none, or half of the VAT of a restaurant
\* bill deductible
UserTaxRules ==
    { NoTaxRules,
      [c \in {"Representatiekosten - Type 2 (Horeca)"} |->
          [vat_deductible |-> 50, ib_deductible |-> 80]] }

\* the record of a purchase after step 4 of process_receipt_file, in cents
processed_purchase(purchase, tax_rules_db, ties) ==
    LET pct  == apply_tax_rules(purchase.category, tax_rules_db)
        calc == calculate_tax_amounts(purchase.total_amount, purchase.vat_breakdown,
                                      pct.vat_deductible_percentage,
                                      pct.ib_deductible_percentage, ties)
    IN  [category |-> purchase.category,
         vat_breakdown |-> purchase.vat_breakdown,
         amount_excl_vat |-> calc.amount_excl_vat,
         vat_deductible_percentage |-> pct.vat_deductible_percentage,
         vat_deductible_amount |-> calc.vat_deductible_amount]

\* the record as the reports read it (amounts in tenths of a cent)
report_record(data) ==
    [category |-> data.category,
     amount_excl_vat |-> 10 * data.amount_excl_vat,
     vat_breakdown |-> [k \in DOMAIN data.vat_breakdown |-> 10 * data.vat_breakdown[k]]]

\* purchases that are processed under the user's rules and then reported
AggregateCalls ==
    [fn : {"aggregate_processed"}, purchases : ListsOf(Purchases),
     tax_rules_db : UserTaxRules]

\* the classification of step 3 on a receipt whose step 2 found this vendor
CategoryCalls ==
    [fn : {"extract_category"}, text : CategoryTexts, vendor_name : VendorNames]

PureCalls == TaxCalls \cup ReducerCalls \cup ReportCalls \cup CategoryCalls
                 \cup ParseCalls \cup PrepareCalls
                 \cup AggregateCalls

\* no call of a computation: the state the other parts run in
CalcIdle == pure_call = NoPureCall /\ pure_ret = NoReturn

CalcInit == pure_call \in PureCalls /\ pure_ret = NoReturn

CalculateTaxAmounts ==
    /\ pure_call.fn = "calculate_tax_amounts"
    /\ pure_ret = NoReturn
    /\ \E r \in { calculate_tax_amounts(pure_call.total_amount, pure_call.vat_breakdown,
                                        pure_call.vat_deductible_percentage,
                                        pure_call.ib_deductible_percentage, ties) :
                      ties \in FloatTies } :
          pure_ret' = [fn |-> pure_call.fn, value |-> r]
    /\ UNCHANGED pure_call

CalculateTaxDeductions ==
    /\ pure_call.fn = "calculate_tax_deductions"
    /\ pure_ret = NoReturn
    /\ \E r \in { calculate_tax_deductions(pure_call.category, pure_call.amount_excl_vat,
                                           pure_call.vat_amount,
                                           pure_call.custom_percentages, ties) :
                      ties \in DeductionTies } :
          pure_ret' = [fn |-> pure_call.fn, value |-> r]
    /\ UNCHANGED pure_call

\* a report computed on a list and on one of its orders (its own call of the
\* function); the records are not written
ReduceInBothOrders ==
    /\ pure_call.fn \in {"calculate_quarterly_vat", "calculate_annual_summary"}
    /\ pure_ret = NoReturn
    /\ \E up \in [{OrderOf(pure_call.receipts), OrderOf(pure_call.permuted)} -> BOOLEAN] :
          LET reduce(receipts) ==
                  IF pure_call.fn = "calculate_quarterly_vat"
                  THEN calculate_quarterly_vat(receipts, pure_call.record_up,
                                               up[OrderOf(receipts)])
                  ELSE calculate_annual_summary(receipts, pure_call.record_up,
                                                up[OrderOf(receipts)])
          IN  pure_ret' = [fn |-> pure_call.fn,
                           value |-> reduce(pure_call.receipts),
                           permuted_value |-> reduce(pure_call.permuted),
                           receipts_after |-> pure_call.receipts]
    /\ UNCHANGED pure_call

\* whether a stored receipt has a transaction date outside the quarter
OutsideQuarter(receipt, quarter) ==
    \E d \in GetOr(receipt.extracted_data, "date", {}) :
        2 * d < quarter_dates(quarter).start_date \/ 2 * d > quarter_dates(quarter).end_date

\* generate_quarterly_report on the store, and on the store without the
\* receipts bought outside the quarter
GenerateQuarterlyReport ==
    /\ pure_call.fn = "generate_quarterly_report"
    /\ pure_ret = NoReturn
    /\ \E up \in BOOLEAN :
          LET inside(receipt) == ~OutsideQuarter(receipt, pure_call.quarter)
          IN  pure_ret' =
                  [fn |-> pure_call.fn,
                   value |-> generate_quarterly_report(pure_call.metadata,
                                 pure_call.quarter, pure_call.record_up, up),
                   without_outside |->
                       generate_quarterly_report(SelectSeq(pure_call.metadata, inside),
                                 pure_call.quarter, pure_call.record_up, up)]
    /\ UNCHANGED pure_call

\* LLMService._extract_category on the reply of the classification
ExtractCategory ==
    /\ pure_call.fn = "extract_category"
    /\ pure_ret = NoReturn
    /\ pure_ret' = [fn |-> pure_call.fn, value |-> extract_category(pure_call.text)]
    /\ UNCHANGED pure_call

\* LLMService._parse_json_response on the text of the structured reply
ParseJsonResponse ==
    /\ pure_call.fn = "parse_json_response"
    /\ pure_ret = NoReturn
    /\ pure_ret' = [fn |-> pure_call.fn, value |-> parse_response_text(pure_call.reply.text)]
    /\ UNCHANGED pure_call

\* ReceiptProcessor._prepare_database_data: the transaction_date of the row
PrepareDatabaseData ==
    /\ pure_call.fn = "prepare_database_data"
    /\ pure_ret = NoReturn
    /\ pure_ret' = [fn |-> pure_call.fn,
                    value |-> [transaction_date |->
                                   transaction_date_of(pure_call.date, today)]]
    /\ UNCHANGED pure_call

\* the purchases go through steps 4 of process_receipt_file; the records are
\* then given to calculate_quarterly_vat and calculate_annual_summary
AggregateProcessed ==
    /\ pure_call.fn = "aggregate_processed"
    /\ pure_ret = NoReturn
    /\ \E ties \in FloatTies, record_up \in BOOLEAN, up \in BOOLEAN :
          LET n == Len(pure_call.purchases)
              data == [i \in 1..n |->
                          processed_purchase(pure_call.purchases[i],
                                             pure_call.tax_rules_db, ties)]
              receipts == [i \in 1..n |-> report_record(data[i])]
          IN  pure_ret' =
                  [fn |-> pure_call.fn,
                   vat_refund_amounts |-> [i \in 1..n |-> data[i].vat_deductible_amount],
                   vat_deductible_percentages |->
                       [i \in 1..n |-> data[i].vat_deductible_percentage],
                   quarterly |-> calculate_quarterly_vat(receipts, record_up, up),
                   annual |-> calculate_annual_summary(receipts, record_up, up)]
    /\ UNCHANGED pure_call

CalcNext ==
    \/ AggregateProcessed
    \/ PrepareDatabaseData
    \/ ExtractCategory
    \/ ParseJsonResponse
    \/ CalculateTaxAmounts
    \/ CalculateTaxDeductions
    \/ ReduceInBothOrders
    \/ GenerateQuarterlyReport

(***************************************************************************)
(* Part IV: the user's tax rules (table category_tax_rules of              *)
(* utils/database_utils.py), the settings page that writes them            *)
(* (modules/settings.py) and LLMService._apply_tax_rules that reads them.  *)
(* The table is a function category_name -> [vat_deductible, ib_deductible]*)
(* of the one user of the program.                                         *)
(***************************************************************************)
VARIABLES
    category_tax_rules,   \* the rows of table category_tax_rules
    rules_call,           \* the last operation on the rules and its arguments
    rules_ret             \* what it returned

ruleVars == <<category_tax_rules, rules_call, rules_ret>>

NoRules == [c \in {} |-> [vat_deductible |-> 100, ib_deductible |-> 100]]
NoRulesCall == [op |-> "none"]
NoRulesReturn == [value |-> "none"]

\* get_category_tax_rules: the rows as a dictionary, {} when the query raises
get_category_tax_rules(table, outcome) ==
    IF outcome = "ok" THEN table ELSE NoRules

\* save_category_tax_rules: deletes the rows of the user and adds one row per
\* entry of rules, whatever its percentages; when the database raises, the
\* rollback leaves the rows as they were.  It returns None either way.
save_category_tax_rules(table, rules, outcome) ==
    IF outcome = "ok"
    THEN [c \in DOMAIN rules |-> [vat_deductible |-> rules[c].vat,
                                  ib_deductible |-> rules[c].ib]]
    ELSE table

\* the categories whose rules the callers of this model change
RuleCategories == {"Kantoorkosten", "Representatiekosten - Type 2 (Horeca)"}

\* percentages a caller of save_category_tax_rules passes
WrittenPercentages == {0 - 10, 50, 150}

\* the rules dictionaries passed to save_category_tax_rules by a direct call:
\* rules for some of RuleCategories
RuleWrites ==
    UNION { [cs -> [vat : WrittenPercentages, ib : WrittenPercentages]] :
               cs \in SUBSET RuleCategories }

\* st.number_input(min_value=0, max_value=100): the values the widget yields
WidgetPercentages == {0, 50, 100}
InWidgetRange(p) == 0 <= p /\ p <= 100

\* default_values of show_tax_settings
settings_default_values(category) ==
    IF category \in {"Representatiekosten - Type 1 (Supermarket)",
                     "Representatiekosten - Type 2 (Horeca)"}
    THEN [vat |-> 0, ib |-> 80]
    ELSE [vat |-> 100, ib |-> 100]

\* the initial value of the widgets of a category in show_tax_settings
widget_value(category, existing_rules) ==
    IF category \in DOMAIN existing_rules
    THEN [vat |-> existing_rules[category].vat_deductible,
          ib |-> existing_rules[category].ib_deductible]
    ELSE settings_default_values(category)

\* categories_settings of show_tax_settings when the user types (vat, ib)
\* into the widgets of category edited and leaves the others as shown
categories_settings(existing_rules, edited, vat, ib) ==
    [c \in EXPENSE_CATEGORIES |->
        IF c = edited THEN [vat |-> vat, ib |-> ib]
        ELSE widget_value(c, existing_rules)]

RulesInit ==
    /\ category_tax_rules = NoRules
    /\ rules_call = NoRulesCall
    /\ rules_ret = NoRulesReturn

\* whether every percentage of a rules dictionary is within [0, 100]
AllInRange(rules) ==
    \A c \in DOMAIN rules : InWidgetRange(rules[c].vat) /\ InWidgetRange(rules[c].ib)

\* a caller saves a rules dictionary
SaveCategoryTaxRules ==
    \E rules \in RuleWrites, outcome \in DbOutcomes :
        /\ category_tax_rules' = save_category_tax_rules(category_tax_rules, rules, outcome)
        /\ rules_call' = [op |-> "save_category_tax_rules", outcome |-> outcome,
                          in_range |-> AllInRange(rules)]
        /\ rules_ret' = [value |-> "None"]

\* show_tax_settings with a press on the save button: the page reads the
\* rules, shows one pair of widgets per category (a number_input whose initial
\* value is outside its range raises and the page is not drawn), the user
\* edits one category, and the page saves all seven and reports success.
ShowTaxSettings ==
    \E read \in DbOutcomes, outcome \in DbOutcomes, edited \in RuleCategories,
       vat \in WidgetPercentages, ib \in WidgetPercentages :
        \E existing_rules \in {get_category_tax_rules(category_tax_rules, read)} :
            /\ \A c \in DOMAIN existing_rules :
                  /\ InWidgetRange(existing_rules[c].vat_deductible)
                  /\ InWidgetRange(existing_rules[c].ib_deductible)
            /\ category_tax_rules' =
                  save_category_tax_rules(category_tax_rules,
                      categories_settings(existing_rules, edited, vat, ib), outcome)
            /\ rules_call' = [op |-> "show_tax_settings", outcome |-> outcome,
                              in_range |-> TRUE]
            /\ rules_ret' = [value |-> "success"]

\* _apply_tax_rules called for a category
ApplyTaxRules ==
    \E category \in CategoryArgs, read \in DbOutcomes :
        /\ rules_call' = [op |-> "apply_tax_rules", category |-> category,
                          outcome |-> read]
        /\ rules_ret' = [value |-> apply_tax_rules(category,
                             get_category_tax_rules(category_tax_rules, read))]
        /\ UNCHANGED category_tax_rules

RulesNext ==
    \/ SaveCategoryTaxRules
    \/ ShowTaxSettings
    \/ ApplyTaxRules

(***************************************************************************)
(* Part V: two runs that call get_exchange_rate of the one service object  *)
(* at the same time.  The runs share the object's cache and the cache      *)
(* file; a run is interrupted between its statements.                      *)
(***************************************************************************)
VARIABLES
    runs,        \* of each run: where it is in get_exchange_rate, and its locals
    cache_file,  \* the entries of exchange_rates_cache.json
    api_log      \* of each key: how many rates the endpoint has answered for it

runVars == <<runs, cache_file, api_log>>

\* the calls one run makes, one after the other
MaxRunCalls == 2

Runs == {"run_a", "run_b"}
RunCurrencies == {"USD", "TRY"}
RunKeys == {CacheKey(f, "EUR", FirstToday) : f \in RunCurrencies}
IdleRun == [pc |-> "idle", calls |-> 0, cache_key |-> << >>,
            rate_data |-> NoRateResult, result |-> NoRateResult]

RunsInit ==
    /\ runs = [r \in Runs |-> IdleRun]
    /\ cache_file = << >>
    /\ api_log = [k \in RunKeys |-> 0]

\* get_exchange_rate up to "if cache_key in self.cache": the cached entry is
\* returned, or the run goes on to the endpoint
RunCheckCache(r) ==
    /\ runs[r].pc = "idle"
    /\ runs[r].calls < MaxRunCalls
    /\ \E f \in RunCurrencies :
         LET cache_key == CacheKey(f, "EUR", today)
         IN  runs' = [runs EXCEPT ![r] =
                 IF cache_key \in DOMAIN cache
                 THEN [pc |-> "done", calls |-> @.calls + 1,
                       cache_key |-> cache_key, rate_data |-> NoRateResult,
                       result |-> cache[cache_key]]
                 ELSE [pc |-> "fetch", calls |-> @.calls + 1,
                       cache_key |-> cache_key, rate_data |-> NoRateResult,
                       result |-> NoRateResult]]
    /\ UNCHANGED <<cache, cache_file, api_log>>

\* rate_data = self._fetch_from_api(...), or its exception and the fallback
RunFetch(r) ==
    /\ runs[r].pc = "fetch"
    /\ \E reply \in ApiReplies :
         LET k == runs[r].cache_key
         IN  IF reply.kind = "ok"
             THEN /\ runs' = [runs EXCEPT ![r].pc = "store",
                                          ![r].rate_data =
                                              fetch_from_api(k[1], k[2], k[3], reply)]
                  /\ api_log' = [api_log EXCEPT ![k] = @ + 1]
             ELSE LET fallback == get_fallback_rate(cache, today, k[1], k[2])
                  IN  /\ runs' = [runs EXCEPT ![r].pc = "done",
                                   ![r].result =
                                       IF fallback # {}
                                       THEN CHOOSE f \in fallback : TRUE
                                       ELSE [success |-> FALSE,
                                             error |-> "request failed",
                                             from_currency |-> k[1],
                                             to_currency |-> k[2], date |-> k[3]]]
                      /\ UNCHANGED api_log
    /\ UNCHANGED <<cache, cache_file>>

\* self.cache[cache_key] = rate_data
RunStore(r) ==
    /\ runs[r].pc = "store"
    /\ cache' = [k \in DOMAIN cache \cup {runs[r].cache_key} |->
                    IF k = runs[r].cache_key THEN runs[r].rate_data ELSE cache[k]]
    /\ runs' = [runs EXCEPT ![r].pc = "save"]
    /\ UNCHANGED <<cache_file, api_log>>

\* self._save_cache(); return rate_data
RunSaveCache(r) ==
    /\ runs[r].pc = "save"
    /\ \E io \in DbOutcomes :
         cache_file' = IF save_cache(cache, io) THEN cache ELSE cache_file
    /\ runs' = [runs EXCEPT ![r].pc = "done", ![r].result = runs[r].rate_data]
    /\ UNCHANGED <<cache, api_log>>

\* the caller has the result and may call again
RunReturn(r) ==
    /\ runs[r].pc = "done"
    /\ runs' = [runs EXCEPT ![r].pc = "idle"]
    /\ UNCHANGED <<cache, cache_file, api_log>>

CheckCacheStep == \E r \in Runs : RunCheckCache(r)
FetchStep == \E r \in Runs : RunFetch(r)
StoreStep == \E r \in Runs : RunStore(r)
SaveCacheStep == \E r \in Runs : RunSaveCache(r)
ReturnStep == \E r \in Runs : RunReturn(r)

RunsNext ==
    \/ CheckCacheStep
    \/ FetchStep
    \/ StoreStep
    \/ SaveCacheStep
    \/ ReturnStep

(***************************************************************************)
(* Part VI: modules/upload_receipts.py, process_uploads: the loop over the *)
(* files of one upload, each file handed to process_receipt.               *)
(***************************************************************************)
VARIABLES
    batch    \* the locals of process_uploads: total_files, idx, the counters

batchVars == <<batch>>

\* the files of one upload
MaxBatchFiles == 2

NoBatch == [total_files |-> 0, idx |-> 0, successful |-> 0, failed |-> 0,
            processed |-> << >>, shown |-> FALSE]

BatchInit == batch = NoBatch

\* process_uploads is called with its files
StartUploads ==
    /\ pc = "idle"
    /\ batch = NoBatch
    /\ \E n \in 1..MaxBatchFiles : batch' = [NoBatch EXCEPT !.total_files = n]
    /\ UNCHANGED pipeVars

\* one iteration up to the call of process_receipt: a file that is not valid
\* or whose save raises is counted as failed and the loop goes on
NextUpload ==
    /\ pc = "idle"
    /\ ~batch.shown
    /\ batch.idx < batch.total_files
    /\ \E outcome \in {"invalid", "save_raises", "ok"} :
          IF outcome = "ok"
          THEN /\ cur' = NewCall(get_next_receipt_id(local_metadata), "upload", "new")
               /\ local_metadata' = save_receipt(local_metadata)
               /\ pc' = "start"
               /\ batch' = [batch EXCEPT !.processed =
                               Append(@, get_next_receipt_id(local_metadata))]
          ELSE /\ batch' = [batch EXCEPT !.failed = @ + 1, !.idx = @ + 1]
               /\ UNCHANGED <<cur, local_metadata, pc>>
    /\ UNCHANGED <<db_receipts, db_extracted, result, queue, run_writes, llm_trace,
                   audit_log>>

\* the iteration after process_receipt returned: the data of a successful
\* run goes to the JSON store, and the run is counted
UploadCounted ==
    /\ batch.total_files > 0
    /\ UploadReturn
    /\ batch' = IF result.success
                THEN [batch EXCEPT !.successful = @ + 1, !.idx = @ + 1]
                ELSE [batch EXCEPT !.failed = @ + 1, !.idx = @ + 1]

\* processor.process_receipt(receipt_id, str(file_path)), step by step
UploadRunStep ==
    /\ \/ ProcessStart
       \/ LLMStep
       \/ SaveStep
       \/ CompleteStep
       \/ ExceptStep
    /\ UNCHANGED batch

\* display_processing_results(results, successful, failed, total_files, ...)
ShowResults ==
    /\ pc = "idle"
    /\ batch.total_files > 0
    /\ batch.idx = batch.total_files
    /\ ~batch.shown
    /\ batch' = [batch EXCEPT !.shown = TRUE]
    /\ UNCHANGED pipeVars

(***************************************************************************)
(* Part VII: utils/local_storage.py, receipts saved to and deleted from    *)
(* receipts_metadata.json.                                                 *)
(***************************************************************************)
VARIABLES
    issued_ids   \* the ids save_receipt has returned, in the order of the calls

storeVars == <<issued_ids>>

\* the calls of save_receipt
MaxSaves == 4

StoreInit == issued_ids = << >>

\* delete_receipt: the first record with the id is removed; [metadata after
\* the call, return value]
delete_receipt(metadata, receipt_id) ==
    IF receipt_id \in LocalIds(metadata)
    THEN LET idx == FirstIndexOf(metadata, receipt_id)
         IN  [metadata |-> SubSeq(metadata, 1, idx - 1)
                               \o SubSeq(metadata, idx + 1, Len(metadata)),
              ret |-> TRUE]
    ELSE [metadata |-> metadata, ret |-> FALSE]

\* save_receipt(file_path, filename, ...): the copy of the file or the write
\* of the metadata may raise, and then nothing is stored
SaveReceipt ==
    /\ pc = "idle"
    /\ Len(issued_ids) < MaxSaves
    /\ \E io \in DbOutcomes :
          IF io = "ok"
          THEN /\ local_metadata' = save_receipt(local_metadata)
               /\ issued_ids' = Append(issued_ids, get_next_receipt_id(local_metadata))
          ELSE UNCHANGED <<local_metadata, issued_ids>>
    /\ UNCHANGED <<db_receipts, db_extracted, pc, cur, result, queue, run_writes,
                   llm_trace, audit_log>>

\* delete_receipt(receipt_id), for an id that is stored or not
DeleteReceipt ==
    /\ pc = "idle"
    /\ \E receipt_id \in 1..MaxSaves :
          local_metadata' = delete_receipt(local_metadata, receipt_id).metadata
    /\ UNCHANGED <<db_receipts, db_extracted, pc, cur, result, queue, run_writes,
                   llm_trace, audit_log, issued_ids>>

\* update_receipt_status(receipt_id, status, error_message) of the local store
UpdateLocalStatus ==
    /\ pc = "idle"
    /\ \E receipt_id \in 1..MaxSaves, status \in Statuses :
          local_metadata' = local_update_receipt_status(local_metadata, receipt_id,
                                                        status, NoneVal)
    /\ UNCHANGED <<db_receipts, db_extracted, pc, cur, result, queue, run_writes,
                   llm_trace, audit_log, issued_ids>>

StoreNext ==
    \/ SaveReceipt
    \/ DeleteReceipt
    \/ UpdateLocalStatus

(***************************************************************************)
(* Specifications                                                          *)
(***************************************************************************)
vars == <<pipeVars, rateVars, calcVars, ruleVars, runVars, batchVars, storeVars>>

Init == PipeInit /\ RateInit /\ CalcIdle /\ RulesInit /\ RunsInit
            /\ BatchInit /\ StoreInit

PipelineNext ==
    PipeNext /\ UNCHANGED <<rateVars, calcVars, ruleVars, runVars,
                           batchVars, storeVars>>

ExchangeNext ==
    RateNext /\ UNCHANGED <<pipeVars, calcVars, ruleVars, runVars,
                           batchVars, storeVars>>

\* the receipt pipeline
Spec == Init /\ [][PipelineNext]_vars

\* process_receipt called on the receipts of the SQL store
ProcessNext ==
    /\ \/ SaveReceiptToDb
       \/ DirectProcess
       \/ ProcessStart
       \/ LLMStep
       \/ SaveStep
       \/ CompleteStep
       \/ ExceptStep
       \/ DirectReturn
    /\ UNCHANGED <<rateVars, calcVars, ruleVars, runVars, batchVars,
                   storeVars>>

SpecProcess == Init /\ [][ProcessNext]_vars

\* the exchange-rate service
SpecRates == Init /\ [][ExchangeNext]_vars

\* the computations, each applied to one drawn call
ComputeNext ==
    CalcNext /\ UNCHANGED <<pipeVars, rateVars, ruleVars, runVars,
                           batchVars, storeVars>>

ComputeInit == PipeInit /\ RateInit /\ CalcInit /\ RulesInit /\ RunsInit
                   /\ BatchInit /\ StoreInit

SpecCalc == ComputeInit /\ [][ComputeNext]_vars

\* the tax rules, their settings page and their resolution
SettingsNext ==
    RulesNext /\ UNCHANGED <<pipeVars, rateVars, calcVars, runVars,
                            batchVars, storeVars>>

SpecRules == Init /\ [][SettingsNext]_vars

\* two runs in get_exchange_rate at the same time
ConcurrentNext ==
    RunsNext /\ UNCHANGED <<pipeVars, calcVars, ruleVars, batchVars, storeVars,
                            cache_saved, today, rate_call, rate_result>>

SpecConcurrent == Init /\ [][ConcurrentNext]_vars

\* one upload of several files through process_uploads
UploadsNext ==
    /\ \/ StartUploads
       \/ NextUpload
       \/ UploadRunStep
       \/ UploadCounted
       \/ ShowResults
    /\ UNCHANGED <<rateVars, calcVars, ruleVars, runVars, storeVars>>

SpecBatch == Init /\ [][UploadsNext]_vars

\* receipts saved to and deleted from the local store
LocalStoreNext ==
    StoreNext /\ UNCHANGED <<rateVars, calcVars, ruleVars, runVars, batchVars>>

SpecStore == Init /\ [][LocalStoreNext]_vars

(***************************************************************************)
(* Properties of process_receipt                                           *)
(***************************************************************************)
\* the status a result stands for
StatusOf(res) == IF res.success THEN "completed" ELSE "failed"

\* C1: when process_receipt has returned, the status stored for the receipt,
\* in the store its caller created it in (the JSON store for the upload
\* flow, the SQL store otherwise), is the terminal status of the result:
\* 'completed' iff success, else 'failed' with the error of the result.
C1_StoredStatusAgreesWithResult ==
    pc = "returned" =>
        IF cur.caller = "upload"
        THEN LocalStatus(local_metadata, cur.receipt_id) = StatusOf(result)
        ELSE /\ db_receipts[cur.receipt_id].processing_status = StatusOf(result)
             /\ ~result.success =>
                    db_receipts[cur.receipt_id].processing_error = result.error

AllowedTransitions ==
    { <<"pending", "processing">>, <<"processing", "completed">>,
      <<"processing", "failed">>, <<"failed", "pending">> }

\* the status changes of one step, as pairs <<old, new>>, in both stores
StatusChanges ==
    { <<db_receipts[i].processing_status, db_receipts'[i].processing_status>> :
          i \in {j \in DOMAIN db_receipts \cap DOMAIN db_receipts' :
                    db_receipts[j].processing_status
                        # db_receipts'[j].processing_status} }
    \cup
    { <<LocalStatus(local_metadata, i), LocalStatus(local_metadata', i)>> :
          i \in {j \in LocalIds(local_metadata) \cap LocalIds(local_metadata') :
                    LocalStatus(local_metadata, j) # LocalStatus(local_metadata', j)} }

\* C3: the processing_status of a receipt changes only along
\* pending->processing, processing->completed, processing->failed and
\* failed->pending.
C3_OnlyAllowedTransitions == [][StatusChanges \subseteq AllowedTransitions]_vars

\* C4: in no reachable state does a receipt with status 'failed' hold an
\* extracted_data row.
C4_FailedHoldsNoExtractedData ==
    \A i \in DOMAIN db_receipts :
        db_receipts[i].processing_status = "failed" => i \notin DOMAIN db_extracted

\* C5: a run of process_receipt that has returned wrote a terminal status to
\* its receipt exactly once.
C5_ExactlyOneTerminalWrite == pc = "returned" => Len(run_writes) = 1

\* C6: when the external call of step 2 or of step 3 raises,
\* process_receipt_file still reports success and the run does not enter
\* the failure handler.
C6_ExternalFailureStillSucceeds ==
    (llm_trace.step2 = "raise" \/ llm_trace.step3 = "raise") =>
        llm_trace.success /\ pc # "except"

(***************************************************************************)
(* Properties of the exchange-rate service                                 *)
(***************************************************************************)
IsLookup(call) == call.op \in {"get_exchange_rate", "convert_amount"}

\* the dates of the cached entries of a pair among the days lo..hi
CachedDates(c, from_currency, to_currency, lo, hi) ==
    {d \in lo..hi : CacheKey(from_currency, to_currency, d) \in DOMAIN c}

MaxOf(S) == CHOOSE m \in S : \A x \in S : x <= m

\* C7: when the external lookup of get_exchange_rate(from, to, D) fails, the
\* result is the cached entry of the same pair with the most recent date
\* among the 30 days before D, tagged cache_fallback, when there is one, and
\* a failure when there is none.
C7_FallbackWindowBeforeRequestedDate ==
    (rate_call.op = "get_exchange_rate" /\ rate_call.api = "raise") =>
        LET window == CachedDates(cache, rate_call.from_currency,
                                  rate_call.to_currency,
                                  rate_call.date - FALLBACK_DAYS, rate_call.date - 1)
        IN  IF window = {} THEN ~rate_result.success
            ELSE LET entry == cache[CacheKey(rate_call.from_currency,
                                             rate_call.to_currency, MaxOf(window))]
                 IN  /\ rate_result.success
                     /\ rate_result.source = "cache_fallback"
                     /\ rate_result.rate = entry.rate
                     /\ rate_result.date = entry.date

\* the rate a successful result carries
RateOf(call, res) ==
    IF call.op = "convert_amount" THEN res.exchange_rate ELSE res.rate

C9_WriteThroughThenServedFromCache ==
    (IsLookup(rate_call) /\ rate_call.from_currency # rate_call.to_currency) =>
        LET key == CacheKey(rate_call.from_currency, rate_call.to_currency,
                            rate_call.date)
        IN  /\ rate_call.api = "ok" =>
                  /\ key \in DOMAIN cache
                  /\ cache[key].rate = rate_call.api_rate
                  /\ rate_result.success
                  /\ RateOf(rate_call, rate_result) = rate_call.api_rate
            /\ rate_call.cached_before =>
                  /\ rate_call.api = "none"
                  /\ key \in DOMAIN cache
                  /\ rate_call.op = "get_exchange_rate" => rate_result = cache[key]
            /\ (rate_call.op = "convert_amount" /\ rate_result.success) =>
                  /\ rate_result.converted_amount
                        = rate_call.amount * rate_result.exchange_rate
                  /\ rate_call.api # "raise" =>
                        /\ rate_result.exchange_rate = cache[key].rate
                        /\ rate_result.exchange_rate_date = cache[key].date
                        /\ rate_result.source = cache[key].source

\* 100.00 USD converted at the cached rate 0.92 of its key: 92.00, without a
\* call to the endpoint
C9_Witness ==
    /\ rate_call.op = "convert_amount"
    /\ rate_call.from_currency = "USD"
    /\ rate_call.cached_before
    /\ rate_call.api = "none"
    /\ rate_result.success
    /\ rate_result.exchange_rate = 920
    /\ rate_result.converted_amount = 9200000

\* C10: an entry of the cache never changes; a key appears only by the
\* write-through of a lookup that missed and got an answer, and disappears
\* only when clear_old_cache evicts an entry dated before its cutoff.
C10_EntriesImmutable ==
    [][ /\ \A k \in DOMAIN cache \cap DOMAIN cache' : cache'[k] = cache[k]
        /\ \A k \in DOMAIN cache' \ DOMAIN cache :
              /\ IsLookup(rate_call')
              /\ rate_call'.api = "ok"
              /\ ~rate_call'.cached_before
              /\ k = CacheKey(rate_call'.from_currency, rate_call'.to_currency,
                              rate_call'.date)
        /\ \A k \in DOMAIN cache \ DOMAIN cache' :
              /\ rate_call'.op = "clear_old_cache"
              /\ cache[k].date < today - rate_call'.days ]_vars

\* a fallback was served from an entry that is still in the cache, next to an
\* entry that survived an earlier state; and an eviction that kept an entry
C10_Witness ==
    \/ /\ rate_call.op = "clear_old_cache"
       /\ rate_call.removed > 0
       /\ cache # <<>>
    \/ /\ rate_call.op = "get_exchange_rate"
       /\ rate_result.success
       /\ rate_result.source = "cache_fallback"
       /\ Cardinality(DOMAIN cache) = MaxCacheEntries

\* C11: a call of get_exchange_rate or convert_amount with equal source and
\* target currency returns rate 1 with source no_conversion (convert_amount:
\* the amount itself), calls no endpoint, and leaves the cache and its file
\* as they were.
C11_SameCurrencyTouchesNothing ==
    [][ (IsLookup(rate_call') /\ rate_call'.from_currency = rate_call'.to_currency) =>
            /\ cache' = cache
            /\ cache_saved' = cache_saved
            /\ rate_call'.api = "none"
            /\ rate_result'.success
            /\ rate_result'.source = "no_conversion"
            /\ RateOf(rate_call', rate_result') = 1000
            /\ rate_call'.op = "convert_amount" =>
                  rate_result'.converted_amount = rate_call'.amount * 1000 ]_vars

\* EUR was converted to EUR for a date in the past while the cache held an
\* entry and its file was out of date
C11_Witness ==
    /\ rate_call.op = "convert_amount"
    /\ rate_call.from_currency = "EUR"
    /\ rate_call.date < today
    /\ rate_result.converted_amount = rate_call.amount * 1000
    /\ cache # <<>>
    /\ ~cache_saved

(***************************************************************************)
(* Properties of the tax computations                                      *)
(***************************************************************************)
IsTaxCall(call) == call.fn \in {"calculate_tax_amounts", "calculate_tax_deductions"}

\* the inputs and outputs of either implementation under common names
TaxFacts(call, ret) ==
    IF call.fn = "calculate_tax_amounts"
    THEN [amount_excl_vat |-> call.total_amount - SumValues(call.vat_breakdown),
          vat_amount |-> SumValues(call.vat_breakdown),
          vat_pct |-> call.vat_deductible_percentage,
          ib_pct |-> call.ib_deductible_percentage,
          vat_deductible |-> ret.value.vat_deductible_amount,
          remainder_after_vat |-> ret.value.remainder_after_vat,
          profit_deduction |-> ret.value.profit_deduction]
    ELSE [amount_excl_vat |-> call.amount_excl_vat,
          vat_amount |-> call.vat_amount,
          vat_pct |-> ret.value.vat_deductible_percentage,
          ib_pct |-> ret.value.ib_deductible_percentage,
          vat_deductible |-> ret.value.vat_deductible_amount,
          remainder_after_vat |-> ret.value.remainder_after_vat,
          profit_deduction |-> ret.value.profit_deduction]

\* |x - y| <= tol
Within(x, y, tol) == x - y <= tol /\ y - x <= tol

\* C12: in both implementations vatDeductible is vatAmount * vatPct / 100 and
\* profitDeduction is amountExclVat * ibPct / 100 within one cent; under
\* 100/100 they are vatAmount and amountExclVat exactly, under 0/80
\* vatDeductible is 0.
C12_DeductionsFollowPercentages ==
    (IsTaxCall(pure_call) /\ pure_ret # NoReturn) =>
        LET f == TaxFacts(pure_call, pure_ret)
        IN  /\ Within(f.vat_deductible * 100, f.vat_amount * f.vat_pct, 100)
            /\ Within(f.profit_deduction * 100, f.amount_excl_vat * f.ib_pct, 100)
            /\ (f.vat_pct = 100 /\ f.ib_pct = 100) =>
                  /\ f.vat_deductible = f.vat_amount
                  /\ f.profit_deduction = f.amount_excl_vat
            /\ (f.vat_pct = 0 /\ f.ib_pct = 80) => f.vat_deductible = 0

\* C13: the rounded outputs satisfy remainder_after_vat +
\* vat_deductible_amount = amount_excl_vat + vat_amount exactly, in both
\* implementations.
C13_RoundedSplitAddsUp ==
    (IsTaxCall(pure_call) /\ pure_ret # NoReturn) =>
        LET f == TaxFacts(pure_call, pure_ret)
        IN  f.remainder_after_vat + f.vat_deductible
                = f.amount_excl_vat + f.vat_amount

(***************************************************************************)
(* Properties of the tax rules                                             *)
(***************************************************************************)
\* the default pair the specification gives a category
SpecDefaultPair(category) ==
    IF category \in {"Representatiekosten - Type 1 (Supermarket)",
                     "Representatiekosten - Type 2 (Horeca)"}
    THEN [vat_deductible_percentage |-> 0, ib_deductible_percentage |-> 80]
    ELSE [vat_deductible_percentage |-> 100, ib_deductible_percentage |-> 100]

\* C14: a resolution of a category of the list returns the stored override
\* pair of that category when the table holds one and the default pair of
\* the category (0/80 for the two representation categories, 100/100 for the
\* other five) when it holds none; the rows of other categories play no part.
C14_ResolutionIsOverrideElseDefault ==
    (rules_call.op = "apply_tax_rules" /\ rules_call.category \in EXPENSE_CATEGORIES)
        => rules_ret.value =
              IF rules_call.category \in DOMAIN category_tax_rules
              THEN [vat_deductible_percentage |->
                        category_tax_rules[rules_call.category].vat_deductible,
                    ib_deductible_percentage |->
                        category_tax_rules[rules_call.category].ib_deductible]
              ELSE SpecDefaultPair(rules_call.category)

\* C15: a write of a percentage outside [0, 100] reports a failure and leaves
\* the table as it was, so that every stored percentage and every resolved
\* percentage is within [0, 100].
StoredInRange ==
    \A c \in DOMAIN category_tax_rules :
        /\ InWidgetRange(category_tax_rules[c].vat_deductible)
        /\ InWidgetRange(category_tax_rules[c].ib_deductible)

ResolvedInRange ==
    rules_call.op = "apply_tax_rules"
        => /\ InWidgetRange(rules_ret.value.vat_deductible_percentage)
           /\ InWidgetRange(rules_ret.value.ib_deductible_percentage)

RejectsOutOfRange ==
    (rules_call'.op = "save_category_tax_rules" /\ ~rules_call'.in_range)
        => /\ category_tax_rules' = category_tax_rules
           /\ rules_ret'.value = "failure"

C15_OutOfRangeWriteRejected ==
    [](StoredInRange /\ ResolvedInRange) /\ [][RejectsOutOfRange]_vars

(***************************************************************************)
(* Properties of the persisted extracted data                              *)
(***************************************************************************)
\* C16: every row of extracted_data is flagged for manual review exactly when
\* its confidence_score is below 0.7, also when the reply held no confidence
\* (score 0.8, not flagged); the row saved after a reply that was no JSON
\* (the parse-error record, confidence 0.3) is flagged.
C16_ReviewFlagFollowsConfidence ==
    /\ \A i \in DOMAIN db_extracted :
          db_extracted[i].manual_review_required
              <=> db_extracted[i].confidence_score < 70
    /\ (pc = "complete" /\ llm_trace.called /\ llm_trace.step2 = "no_json")
          => /\ cur.receipt_id \in DOMAIN db_extracted
             /\ db_extracted[cur.receipt_id].manual_review_required

C16_Witness ==
    /\ pc = "complete"
    /\ llm_trace.called
    /\ llm_trace.step2 = "no_json"
    /\ db_extracted[cur.receipt_id].confidence_score = 30
    /\ db_extracted[cur.receipt_id].manual_review_required

\* C17: the category of the data process_receipt_file returns, of the result
\* of process_receipt and of every row of extracted_data is one of the seven
\* categories of Config.EXPENSE_CATEGORIES, whatever text the classification
\* call replied.
C17_CategoryIsOneOfTheSeven ==
    /\ \A d \in cur.data \cup result.data : d.category \in EXPENSE_CATEGORIES
    /\ \A i \in DOMAIN db_extracted :
          db_extracted[i].expense_category \in EXPENSE_CATEGORIES

C17_Witness ==
    /\ pc = "complete"
    /\ llm_trace.called
    /\ llm_trace.step3 = "invalid"
    /\ cur.receipt_id \in DOMAIN db_extracted
    /\ db_extracted[cur.receipt_id].expense_category = "Kantoorkosten"

\* C18: in every row of extracted_data the total including VAT equals the
\* amount excluding VAT plus the amounts of the three stored VAT rates, to the
\* cent.
C18_StoredAmountsAddUp ==
    \A i \in DOMAIN db_extracted :
        Within(db_extracted[i].total_incl_vat,
               db_extracted[i].amount_excl_vat + db_extracted[i].vat_6_amount
                   + db_extracted[i].vat_9_amount + db_extracted[i].vat_21_amount,
               1)

(***************************************************************************)
(* Properties of the reports                                               *)
(***************************************************************************)
\* C19: calculate_quarterly_vat and calculate_annual_summary return the same
\* figures (totals, per rate, per category, per month) for a list of records
\* and for every order of it, and leave the records as they were.
C19_ReportsAreOrderIndependent ==
    pure_ret.fn \in {"calculate_quarterly_vat", "calculate_annual_summary"}
        => /\ pure_ret.permuted_value = pure_ret.value
           /\ pure_ret.receipts_after = pure_call.receipts

\* C20: a receipt whose transaction date lies outside the quarter adds
\* nothing to any figure of the quarterly VAT report: the report of a store is
\* the report of the store without those receipts.
C20_QuarterIsByTransactionDate ==
    pure_ret.fn = "generate_quarterly_report"
        => /\ pure_ret.value.vat_summary = pure_ret.without_outside.vat_summary
           /\ pure_ret.value.receipt_count = pure_ret.without_outside.receipt_count

\* the global totals of an annual summary are all 0
AnnualTotalsAreZero(summary) ==
    /\ summary.total_expenses = 0
    /\ summary.total_vat_paid = 0
    /\ summary.total_vat_refunded = 0
    /\ summary.deductible_expenses = 0
    /\ summary.non_deductible_expenses = 0
    /\ summary.receipt_count = 0

IsEmptyAnnualCall ==
    /\ pure_call.fn = "calculate_annual_summary"
    /\ pure_call.receipts = << >>
    /\ pure_ret.fn = "calculate_annual_summary"

\* C21 as stated: calculate_annual_summary of the empty list returns every
\* global total 0, a per-category breakdown without entries and a per-month
\* breakdown without entries.
C21_EmptySummaryHasNoCategories ==
    IsEmptyAnnualCall
        => /\ AnnualTotalsAreZero(pure_ret.value)
           /\ DOMAIN pure_ret.value.by_category = {}
           /\ DOMAIN pure_ret.value.by_month = {}

\* C21 amended: calculate_annual_summary of the empty list returns every
\* global total 0, a per-category breakdown that holds each of the seven
\* categories with count 0 and amounts 0, and a per-month breakdown without
\* entries.
C21_EmptySummaryIsAllZero ==
    IsEmptyAnnualCall
        => /\ AnnualTotalsAreZero(pure_ret.value)
           /\ DOMAIN pure_ret.value.by_category = EXPENSE_CATEGORIES
           /\ \A c \in EXPENSE_CATEGORIES :
                 pure_ret.value.by_category[c] =
                     [count |-> 0, amount_excl_vat |-> 0, vat |-> 0, total |-> 0,
                      deductible |-> 0]
           /\ DOMAIN pure_ret.value.by_month = {}

C21_Witness ==
    /\ IsEmptyAnnualCall
    /\ pure_ret.value.receipt_count = 0
    /\ pure_ret.value.by_category["Kantoorkosten"].count = 0

\* C22: two runs that call get_exchange_rate at the same time for a key that
\* is not cached are serialized: the endpoint answers at most one rate for
\* the key, and an entry that one run has saved to the cache file is neither
\* changed nor lost by a later save.
C22_CacheMissIsSerialized ==
    /\ [](\A k \in RunKeys : api_log[k] <= 1)
    /\ [][\A k \in DOMAIN cache_file :
             /\ k \in DOMAIN cache_file'
             /\ cache_file'[k] = cache_file[k]]_vars

\* C23: when the classification returns a label that is not one of the
\* categories, the category assigned is the one the keyword rules select
\* from the vendor name (a supermarket gives representation type 1, a fuel
\* station gives transport), and the default only when no keyword matches.
C23_InvalidLabelFallsBackToKeywords ==
    ( /\ pure_ret.fn = "extract_category"
      /\ ~IsCategory(strip(pure_call.text)) )
        => pure_ret.value = categorize_from_data(pure_call.vendor_name)

\* C24: parsing the structured reply is total and never raises.  A bare
\* object, an object in a code fence and an object with prose around it give
\* the embedded object; a text without a JSON object gives the fallback record
\* with a confidence of at most 0.5; a JSON document that is no object (a
\* list) and prose with braces give a record too.
C24_ParseAlwaysYieldsARecord ==
    pure_ret.fn = "parse_json_response" =>
        /\ pure_ret.value.type = "dict"
        /\ pure_call.reply.shape \in {"bare", "fenced", "prose"}
              => /\ ~pure_ret.value.parse_error
                 /\ pure_ret.value.members
                        = {t \in {"k:v"} : \E i \in 1..Len(pure_call.reply.text) :
                                               pure_call.reply.text[i] = t}
        /\ pure_call.reply.shape = "no_json"
              => /\ pure_ret.value.parse_error
                 /\ pure_ret.value.confidence <= 50

\* C25: when step 1 (the vision call) of a run fails, the run stops: the
\* vision call was made once, no later step of the LLM pipeline was executed,
\* the run reports failure, and the receipt is stored as 'failed' with the
\* error the run captured.
C25_VisionFailureStopsTheRun ==
    (pc = "returned" /\ llm_trace.called /\ llm_trace.step1 = "raise") =>
        /\ llm_trace.step2 = "skipped"
        /\ llm_trace.step3 = "skipped"
        /\ ~result.success
        /\ result.error = cur.error
        /\ IF cur.caller = "upload"
           THEN LocalStatus(local_metadata, cur.receipt_id) = "failed"
           ELSE /\ db_receipts[cur.receipt_id].processing_status = "failed"
                /\ db_receipts[cur.receipt_id].processing_error = result.error

\* C26: a record whose date is missing, null, empty or not parseable as a date
\* is prepared for storage with transaction_date = null: no other date (such
\* as the day of processing) takes its place.
C26_BadDateIsStoredAsNull ==
    ( /\ pure_ret.fn = "prepare_database_data"
      /\ \A d \in pure_call.date : d \notin DOMAIN ParsableDates )
        => pure_ret.value.transaction_date = {}

\* the receipts of the upload that were handed to process_receipt before the
\* one that is being started
StartedBefore == {batch.processed[i] : i \in 1..Len(batch.processed)}

\* C27: in a batch of N receipts, a receipt is started only after every
\* receipt started before it has reached a terminal status; the failure of
\* one receipt does not stop the batch; at the end every receipt has been
\* processed exactly once and successful + failed = N.
C27_BatchIsSequential ==
    /\ [][(pc = "idle" /\ pc' = "start") =>
             \A id \in StartedBefore :
                 LocalStatus(local_metadata, id) \in TerminalStatuses]_vars
    /\ [](batch.shown =>
             /\ batch.successful + batch.failed = batch.total_files
             /\ batch.idx = batch.total_files
             /\ \A i, j \in 1..Len(batch.processed) :
                    batch.processed[i] = batch.processed[j] => i = j)

\* C28: the deductible VAT of the reports (deductible_vat of the quarterly
\* declaration, total_vat_refunded of the annual summary) is the sum of the
\* vat_refund_amount the pipeline stored for the records: the reports apply
\* the VAT-deductible percentage the pipeline applied, the user's override
\* included.
C28_ReportsAgreeWithStoredRefunds ==
    pure_ret.fn = "aggregate_processed" =>
        /\ pure_ret.quarterly.deductible_vat = SeqSum(pure_ret.vat_refund_amounts)
        /\ pure_ret.annual.total_vat_refunded = SeqSum(pure_ret.vat_refund_amounts)

\* the key of the lookup a call record describes
KeyOf(call) == CacheKey(call.from_currency, call.to_currency, call.date)

\* C29: a call of get_exchange_rate (or convert_amount) whose lookup at the
\* endpoint fails leaves the cache as it was, whether it returns a fallback
\* or a failure: nothing is stored under the requested key and the cache file
\* is not written; the next call for the same key asks the endpoint again.
C29_FailedLookupLeavesCacheAlone ==
    [][ /\ (IsLookup(rate_call') /\ rate_call'.api = "raise") =>
              /\ cache' = cache
              /\ cache_saved' = cache_saved
              /\ KeyOf(rate_call') \notin DOMAIN cache'
        /\ ( /\ IsLookup(rate_call) /\ rate_call.api = "raise"
             /\ IsLookup(rate_call') /\ KeyOf(rate_call') = KeyOf(rate_call)
             /\ cache' # cache \/ rate_result' # rate_result ) =>
              rate_call'.api # "none" ]_vars

\* a lookup for TRY failed and was answered with the fallback of an earlier
\* day, while the cache file was out of date
C29_Witness ==
    /\ rate_call.op = "get_exchange_rate"
    /\ rate_call.from_currency = "TRY"
    /\ rate_call.api = "raise"
    /\ rate_result.success
    /\ rate_result.source = "cache_fallback"
    /\ KeyOf(rate_call) \notin DOMAIN cache
    /\ ~cache_saved

\* C30: for any sequence of save_receipt and delete_receipt calls on the
\* local store, the ids of the stored receipts are pairwise distinct, and the
\* id save_receipt returns differs from the id of every receipt saved before,
\* deleted ones included: an id is never used again.
C30_IdsAreNeverReused ==
    /\ \A i, j \in 1..Len(local_metadata) :
          local_metadata[i].id = local_metadata[j].id => i = j
    /\ \A i, j \in 1..Len(issued_ids) : issued_ids[i] = issued_ids[j] => i = j

====
